---- MODULE Spec2Model ----
(***************************************************************************)
(* Model of pie_utils.sequence_tagging: conversion between labeled token   *)
(* spans and IOB2 / BIOUL / BOUL tag sequences, the recoding between the   *)
(* schemes and the repair / removal of ill-formed tag sequences.           *)
(*                                                                         *)
(* A tag "B-person" is the record [r |-> "B", l |-> "person"]; "O" is      *)
(* [r |-> "O", l |-> ""] (label[0] and label.partition("-")[2] in Python). *)
(* A labeled span (label, (start, end)) is [label, start, end]; positions  *)
(* are 0-based as in the source, At(s, i) reads position i.                *)
(***************************************************************************)
EXTENDS Integers, Sequences, FiniteSets, TLC

VARIABLES
    tag_sequence,          \* the caller's tag list
    labeled_spans,         \* the caller's span list
    base_sequence_length,  \* the caller's token count
    pc,                    \* "start" or the name of the call that has returned
    coding_scheme,         \* arguments of the last call
    include_ill_formed,
    offset,
    classes_to_ignore,
    tags,                  \* tag list returned by the last call
    spans,                 \* span list returned by the last call
    err,                   \* "" or the exception the last call raised
    document,              \* the document a processor works on: its layers
    matches,               \* the matches the matcher finds in document.text
    processor,             \* the parameters of the last processor call
    returned,              \* the document the last processor call returned
    metric,                \* the metric object: its configuration and counters
    seen,                  \* the spans the metric has been shown, per class
    dataset,               \* a dataset dict: its splits in insertion order
    log                    \* the statistics calls made and lines logged so far

vars == <<tag_sequence, labeled_spans, base_sequence_length, pc, coding_scheme,
          include_ill_formed, offset, classes_to_ignore, tags, spans, err,
          document, matches, processor, returned, metric, seen, dataset, log>>

\* the variables of the tag codec and those of the document processors
codec_vars == <<tag_sequence, labeled_spans, base_sequence_length, coding_scheme,
                include_ill_formed, offset, classes_to_ignore, tags, spans>>
document_vars == <<document, matches, processor, returned>>
metric_vars == <<metric, seen>>
dataset_vars == <<dataset, log>>

\* an optional value: None or Some(x)
None == <<>>
Some(x) == <<x>>

\* no document is being processed
NoDocument == document = None /\ matches = <<>> /\ processor = None /\ returned = None

\* no metric is being updated
NoMetric == metric = None /\ seen = None

\* no dataset is being processed
NoDataset == dataset = None /\ log = <<>>

(***************************************************************************)
(* Bounds                                                                  *)
(***************************************************************************)
MaxLen == 3        \* longest tag sequence drawn
MaxSpans == 2      \* longest span list drawn
MaxBase == 3       \* largest base_sequence_length and span position drawn
MaxOffset == 1     \* largest offset argument drawn

Labels == {"a", "b"}
O == [r |-> "O", l |-> ""]
Tag(role, label) == [r |-> role, l |-> label]
Span(label, start, end) == [label |-> label, start |-> start, end |-> end]

Schemes == {"IOB2", "BIOUL", "BOUL"}
UnknownScheme == "XYZ"

\* the tags a caller may hand in: every role letter of the three schemes,
\* plus a tag with a role letter that no scheme defines
Alphabet == {O} \cup {Tag(r, l) : r \in {"B", "I", "L", "U"}, l \in Labels}
                \cup {Tag("M", "a")}

SchemeRoles(scheme) ==
    CASE scheme = "IOB2" -> {"O", "B", "I"}
      [] scheme = "BIOUL" -> {"O", "B", "I", "L", "U"}
      [] scheme = "BOUL" -> {"O", "B", "L", "U"}
      [] OTHER -> {}

InAlphabet(s, scheme) == \A i \in 1..Len(s) : s[i].r \in SchemeRoles(scheme)

At(s, i) == s[i + 1]

Ok(t) == [err |-> "", tags |-> t]
Raise(e) == [err |-> e, tags |-> <<>>]
OkSpans(sp) == [err |-> "", spans |-> sp]
RaiseSpans(e) == [err |-> e, spans |-> <<>>]

FilterIgnored(sp, ignore) == SelectSeq(sp, LAMBDA x : x.label \notin ignore)

(***************************************************************************)
(* iob2_tags_to_spans                                                      *)
(***************************************************************************)
SkipINoLoop(s, idx) == idx

SkipIToEnd(s, idx) == Len(s)

RECURSIVE SkipI(_, _)
\* the inner while: the first index from idx on whose tag is not an I tag
\* (of any label), or len(tag_sequence)
SkipI(s, idx) ==
    IF idx < Len(s) /\ At(s, idx).r = "I" THEN SkipI(s, idx + 1) ELSE idx

RECURSIVE iob2_loop(_, _, _)
iob2_loop(s, index, acc) ==
    IF index >= Len(s) THEN acc
    ELSE LET label == At(s, index) IN
         IF label.r = "B"
         THEN LET start == index
                  i1 == index + 1
              IN IF i1 >= Len(s)
                 THEN iob2_loop(s, i1, Append(acc, Span(label.l, start, start)))
                 ELSE IF At(s, i1).r = "B"
                 THEN iob2_loop(s, i1, Append(acc, Span(label.l, start, start)))
                 ELSE LET idx == SkipI(s, i1)
                      IN iob2_loop(s, idx, Append(acc, Span(label.l, start, idx - 1)))
         ELSE iob2_loop(s, index + 1, acc)

iob2_tags_to_spans(s, ignore) == FilterIgnored(iob2_loop(s, 0, <<>>), ignore)

(***************************************************************************)
(* bioul_tags_to_spans                                                     *)
(***************************************************************************)
RECURSIVE FindL(_, _)
\* the inner while, entered at a B tag at position index: the position of
\* the next L tag, or -1 when tag_sequence[index] is read past the end
FindL(s, index) ==
    IF index + 1 >= Len(s) THEN -1
    ELSE IF At(s, index + 1).r = "L" THEN index + 1
    ELSE FindL(s, index + 1)

RECURSIVE bioul_loop(_, _, _)
bioul_loop(s, index, acc) ==
    IF index >= Len(s) THEN OkSpans(acc)
    ELSE LET label == At(s, index) IN
         IF label.r = "U"
         THEN bioul_loop(s, index + 1, Append(acc, Span(label.l, index, index)))
         ELSE IF label.r = "B"
         THEN LET end == FindL(s, index)
              IN IF end < 0 THEN RaiseSpans("IndexError")
                 ELSE bioul_loop(s, end + 1, Append(acc, Span(label.l, index, end)))
         ELSE bioul_loop(s, index + 1, acc)

bioul_tags_to_spans(s, ignore) ==
    LET r == bioul_loop(s, 0, <<>>)
    IN IF r.err # "" THEN r ELSE OkSpans(FilterIgnored(r.spans, ignore))

(***************************************************************************)
(* to_bioul                                                                *)
(***************************************************************************)
replace_label_drops_label(full_label, new_label) == Tag(new_label, "")

replace_label(full_label, new_label) == Tag(new_label, full_label.l)

process_stack_no_unit(stack) ==
    [i \in 1..Len(stack) |->
        replace_label(stack[i], IF i = Len(stack) THEN "L"
                                ELSE IF i = 1 THEN "B" ELSE "I")]

process_stack(stack) ==
    IF Len(stack) = 1 THEN <<replace_label(stack[1], "U")>>
    ELSE [i \in 1..Len(stack) |->
             replace_label(stack[i], IF i = 1 THEN "B"
                                     ELSE IF i = Len(stack) THEN "L" ELSE "I")]

Flush(stack) == IF Len(stack) > 0 THEN process_stack(stack) ELSE <<>>

RECURSIVE to_bioul_loop_passes_unknown(_, _, _, _, _)
to_bioul_loop_passes_unknown(s, encoding, i, out, stack) ==
    IF i > Len(s) THEN Ok(out \o Flush(stack))
    ELSE LET label == s[i] IN
         IF label = O
         THEN to_bioul_loop_passes_unknown(s, encoding, i + 1,
                                           (out \o Flush(stack)) \o <<label>>, <<>>)
         ELSE IF label.r = "I"
         THEN IF Len(stack) = 0
              THEN IF encoding = "IOB2" THEN Raise("InvalidTagSequence")
                   ELSE to_bioul_loop_passes_unknown(s, encoding, i + 1, out, <<label>>)
              ELSE IF label.l = stack[Len(stack)].l
              THEN to_bioul_loop_passes_unknown(s, encoding, i + 1, out, Append(stack, label))
              ELSE IF encoding = "IOB2" THEN Raise("InvalidTagSequence")
              ELSE to_bioul_loop_passes_unknown(s, encoding, i + 1,
                                                out \o process_stack(stack), <<label>>)
         ELSE IF label.r = "B"
         THEN to_bioul_loop_passes_unknown(s, encoding, i + 1, out \o Flush(stack), <<label>>)
         ELSE to_bioul_loop_passes_unknown(s, encoding, i + 1,
                                           (out \o Flush(stack)) \o <<label>>, <<>>)

RECURSIVE to_bioul_loop(_, _, _, _, _)
to_bioul_loop(s, encoding, i, out, stack) ==
    IF i > Len(s) THEN Ok(out \o Flush(stack))
    ELSE LET label == s[i] IN
         IF label = O
         THEN to_bioul_loop(s, encoding, i + 1, (out \o Flush(stack)) \o <<label>>, <<>>)
         ELSE IF label.r = "I"
         THEN IF Len(stack) = 0
              THEN IF encoding = "IOB2" THEN Raise("InvalidTagSequence")
                   ELSE to_bioul_loop(s, encoding, i + 1, out, <<label>>)
              ELSE IF label.l = stack[Len(stack)].l
              THEN to_bioul_loop(s, encoding, i + 1, out, Append(stack, label))
              ELSE IF encoding = "IOB2" THEN Raise("InvalidTagSequence")
              ELSE to_bioul_loop(s, encoding, i + 1, out \o process_stack(stack), <<label>>)
         ELSE IF label.r = "B"
         THEN to_bioul_loop(s, encoding, i + 1, out \o Flush(stack), <<label>>)
         ELSE Raise("InvalidTagSequence")

to_bioul(s, encoding) ==
    IF encoding \notin {"IOB1", "IOB2"} THEN Raise("ValueError")
    ELSE to_bioul_loop(s, encoding, 1, <<>>, <<>>)

(***************************************************************************)
(* bioul_to_boul, to_boul, boul_to_bioul, boul_tags_to_spans               *)
(***************************************************************************)
bioul_to_boul_keeps_inside(bioul_tags) == bioul_tags

bioul_to_boul(bioul_tags) ==
    [i \in 1..Len(bioul_tags) |->
        IF bioul_tags[i].r = "I" THEN O ELSE bioul_tags[i]]

to_boul(s, encoding) ==
    LET b == to_bioul(s, encoding)
    IN IF b.err # "" THEN b ELSE Ok(bioul_to_boul(b.tags))

RECURSIVE boul_fill_keeps_tag(_, _, _, _)
boul_fill_keeps_tag(s, index, tag_type, out) ==
    IF index >= Len(s) THEN [err |-> "IndexError", tags |-> <<>>, index |-> index]
    ELSE IF At(s, index).r # "L"
    THEN boul_fill_keeps_tag(s, index + 1, tag_type, Append(out, At(s, index)))
    ELSE [err |-> "", tags |-> Append(out, At(s, index)), index |-> index]

RECURSIVE boul_fill_label_of_tag(_, _, _, _)
boul_fill_label_of_tag(s, index, tag_type, out) ==
    IF index >= Len(s) THEN [err |-> "IndexError", tags |-> <<>>, index |-> index]
    ELSE IF At(s, index).r # "L"
    THEN boul_fill_label_of_tag(s, index + 1, tag_type, Append(out, Tag("I", At(s, index).l)))
    ELSE [err |-> "", tags |-> Append(out, At(s, index)), index |-> index]

RECURSIVE boul_fill(_, _, _, _)
\* the inner while, entered with index at the tag after a B: appends
\* I-tag_type for every tag up to the next L, then the L itself;
\* tag_sequence[index] is read past the end when no L follows
boul_fill(s, index, tag_type, out) ==
    IF index >= Len(s) THEN [err |-> "IndexError", tags |-> <<>>, index |-> index]
    ELSE IF At(s, index).r # "L"
    THEN boul_fill(s, index + 1, tag_type, Append(out, Tag("I", tag_type)))
    ELSE [err |-> "", tags |-> Append(out, At(s, index)), index |-> index]

RECURSIVE boul_loop(_, _, _)
boul_loop(s, index, out) ==
    IF index >= Len(s) THEN Ok(out)
    ELSE LET label == At(s, index) IN
         IF label.r = "B"
         THEN LET f == boul_fill(s, index + 1, label.l, Append(out, label))
              IN IF f.err # "" THEN Raise(f.err)
                 ELSE boul_loop(s, f.index + 1, f.tags)
         ELSE boul_loop(s, index + 1, Append(out, label))

boul_to_bioul(s) == boul_loop(s, 0, <<>>)

\* the recoding back from BIOUL to IOB2: L becomes I, U becomes B
bioul_to_bio2(bioul_tags) ==
    [i \in 1..Len(bioul_tags) |->
        IF bioul_tags[i].r = "L" THEN Tag("I", bioul_tags[i].l)
        ELSE IF bioul_tags[i].r = "U" THEN Tag("B", bioul_tags[i].l)
        ELSE bioul_tags[i]]

boul_tags_to_spans(s, ignore) ==
    LET b == boul_to_bioul(s)
    IN IF b.err # "" THEN RaiseSpans(b.err) ELSE bioul_tags_to_spans(b.tags, ignore)

(***************************************************************************)
(* pie_utils.sequence_tagging.ill_formed: fix_bio, fix_bioul, fix_boul,    *)
(* remove_bio, remove_bioul, remove_boul, fix_encoding, remove_encoding.   *)
(* Every tag must use a role letter of the scheme, else InvalidTagSequence.*)
(***************************************************************************)
fix_bio_drops_orphan(s) ==
    IF ~InAlphabet(s, "IOB2") THEN Raise("InvalidTagSequence")
    ELSE Ok([i \in 1..Len(s) |->
                IF s[i].r = "I" /\ (i = 1 \/ s[i - 1].l # s[i].l) THEN O ELSE s[i]])

fix_bio_promotes_every_inside(s) ==
    IF ~InAlphabet(s, "IOB2") THEN Raise("InvalidTagSequence")
    ELSE Ok([i \in 1..Len(s) |-> IF s[i].r = "I" THEN Tag("B", s[i].l) ELSE s[i]])

\* IOB2 repair: an I-l that does not follow B-l or I-l is promoted to B-l
fix_bio(s) ==
    IF ~InAlphabet(s, "IOB2") THEN Raise("InvalidTagSequence")
    ELSE Ok([i \in 1..Len(s) |->
                IF s[i].r = "I" /\ (i = 1 \/ s[i - 1].l # s[i].l)
                THEN Tag("B", s[i].l) ELSE s[i]])

RECURSIVE remove_bio_loop(_, _, _)
\* IOB2 removal: an I-l that does not follow a kept B-l or I-l becomes O,
\* and so does the rest of its I run
remove_bio_loop(s, i, out) ==
    IF i > Len(s) THEN out
    ELSE LET t == s[i]
             orphan == t.r = "I" /\ (i = 1 \/ out[i - 1].l # t.l)
         IN remove_bio_loop(s, i + 1, Append(out, IF orphan THEN O ELSE t))

remove_bio_promotes(s) == fix_bio(s)

remove_bio(s) ==
    IF ~InAlphabet(s, "IOB2") THEN Raise("InvalidTagSequence")
    ELSE Ok(remove_bio_loop(s, 1, <<>>))

RunLoneB(l, n, inside) ==
    [i \in 1..n |-> IF i = 1 THEN Tag("B", l)
                     ELSE IF i = n THEN Tag("L", l) ELSE inside]

\* a repaired run of n positions with label l: U-l, or B-l, n-2 inside tags, L-l
Run(l, n, inside) ==
    IF n = 1 THEN <<Tag("U", l)>>
    ELSE [i \in 1..n |-> IF i = 1 THEN Tag("B", l)
                         ELSE IF i = n THEN Tag("L", l) ELSE inside]

Os(n) == [i \in 1..n |-> O]

NoRun == [l |-> "", n |-> 0, last |-> "O", os |-> 0]
NewRun(t) == [l |-> t.l, n |-> 1, last |-> t.r, os |-> 0]
\* a run is still open while its last tag is a B or an I
IsOpen(run) == run.last \in {"B", "I"}

RECURSIVE fix_bioul_loop(_, _, _, _)
\* BIOUL repair: tags of one label that follow each other are one run; a run
\* that has seen its L or U ends before the next B, I or U; O and a change of
\* label end a run; each run is rewritten as U-l or B-l I-l* L-l
fix_bioul_loop(s, i, out, run) ==
    LET done == IF run.n > 0 THEN Run(run.l, run.n, Tag("I", run.l)) ELSE <<>>
    IN IF i > Len(s) THEN out \o done
       ELSE LET t == s[i] IN
            IF t.r = "O"
            THEN fix_bioul_loop(s, i + 1, (out \o done) \o <<O>>, NoRun)
            ELSE IF run.n > 0 /\ t.l = run.l /\ (t.r = "L" \/ IsOpen(run))
            THEN fix_bioul_loop(s, i + 1, out,
                                [run EXCEPT !.n = @ + 1, !.last = t.r])
            ELSE fix_bioul_loop(s, i + 1, out \o done, NewRun(t))

fix_bioul(s) ==
    IF ~InAlphabet(s, "BIOUL") THEN Raise("InvalidTagSequence")
    ELSE Ok(fix_bioul_loop(s, 1, <<>>, NoRun))

RECURSIVE fix_boul_loop(_, _, _, _)
\* BOUL repair: as fix_bioul, but an O after the first tag of a run may be an
\* inside position: run.os counts the O's seen since the last tag of the run.
\* An open run keeps them when it ends; a closed run gives them up, to a
\* following L of another label if there is one
fix_boul_loop(s, i, out, run) ==
    LET closed == IF run.n > 0 THEN Run(run.l, run.n, O) \o Os(run.os) ELSE <<>>
        kept == IF run.n > 0 THEN Run(run.l, run.n + run.os, O) ELSE <<>>
    IN IF i > Len(s) THEN out \o (IF IsOpen(run) THEN kept ELSE closed)
       ELSE LET t == s[i] IN
            IF run.n = 0
            THEN IF t.r = "O" THEN fix_boul_loop(s, i + 1, Append(out, O), NoRun)
                 ELSE fix_boul_loop(s, i + 1, out, NewRun(t))
            ELSE IF t.r = "O"
            THEN fix_boul_loop(s, i + 1, out, [run EXCEPT !.os = @ + 1])
            ELSE IF t.l = run.l /\ (t.r = "L" \/ IsOpen(run))
            THEN fix_boul_loop(s, i + 1, out,
                     [run EXCEPT !.n = @ + run.os + 1, !.os = 0, !.last = t.r])
            ELSE IF IsOpen(run)
            THEN fix_boul_loop(s, i + 1, out \o kept, NewRun(t))
            ELSE IF t.l # run.l /\ t.r = "L"
            THEN fix_boul_loop(s, i + 1, out \o Run(run.l, run.n, O),
                     [l |-> t.l, n |-> run.os + 1, last |-> "L", os |-> 0])
            ELSE fix_boul_loop(s, i + 1, out \o closed, NewRun(t))

fix_boul(s) ==
    IF ~InAlphabet(s, "BOUL") THEN Raise("InvalidTagSequence")
    ELSE Ok(fix_boul_loop(s, 1, <<>>, NoRun))

BlankBreakingTag(out, from, to) ==
    [k \in 1..Len(out) |-> IF k = to THEN O ELSE out[k]]

Blank(out, from, to) ==
    [k \in 1..Len(out) |-> IF from <= k /\ k <= to THEN O ELSE out[k]]

RECURSIVE remove_loop(_, _, _, _, _)
\* BIOUL / BOUL removal: a B opens a run (start is its position, 0 when no
\* run is open); the run is kept when the L of its label closes it after
\* inside tags only (I-l in BIOUL, O in BOUL); any other tag, or the end of
\* the sequence, makes every position from the B on O; an I or L outside a
\* run becomes O; a U outside a run is kept
remove_loop(s, scheme, i, out, start) ==
    IF i > Len(s)
    THEN IF start = 0 THEN out ELSE Blank(out, start, Len(s))
    ELSE LET t == s[i]
             next == Append(out, t)
         IN IF start = 0
            THEN IF t.r = "B" THEN remove_loop(s, scheme, i + 1, next, i)
                 ELSE IF t.r \in {"I", "L"}
                 THEN remove_loop(s, scheme, i + 1, Append(out, O), 0)
                 ELSE remove_loop(s, scheme, i + 1, next, 0)
            ELSE IF t.r = "L" /\ t.l = s[start].l
            THEN remove_loop(s, scheme, i + 1, next, 0)
            ELSE IF (scheme = "BIOUL" /\ t.r = "I" /\ t.l = s[start].l)
                    \/ (scheme = "BOUL" /\ t.r = "O")
            THEN remove_loop(s, scheme, i + 1, next, start)
            ELSE remove_loop(s, scheme, i + 1, Blank(next, start, i), 0)

remove_bioul(s) ==
    IF ~InAlphabet(s, "BIOUL") THEN Raise("InvalidTagSequence")
    ELSE Ok(remove_loop(s, "BIOUL", 1, <<>>, 0))

remove_boul(s) ==
    IF ~InAlphabet(s, "BOUL") THEN Raise("InvalidTagSequence")
    ELSE Ok(remove_loop(s, "BOUL", 1, <<>>, 0))

fix_encoding(s, encoding) ==
    CASE encoding = "IOB2" -> fix_bio(s)
      [] encoding = "BIOUL" -> fix_bioul(s)
      [] encoding = "BOUL" -> fix_boul(s)
      [] OTHER -> Raise("ValueError")

remove_encoding(s, encoding) ==
    CASE encoding = "IOB2" -> remove_bio(s)
      [] encoding = "BIOUL" -> remove_bioul(s)
      [] encoding = "BOUL" -> remove_boul(s)
      [] OTHER -> Raise("ValueError")

fix_ill_formed_tag_sequence(s, encoding) == fix_encoding(s, encoding)
remove_ill_formed_tag_sequence(s, encoding) == remove_encoding(s, encoding)

(***************************************************************************)
(* Python list indexing: negative indices count from the end, slices clamp *)
(***************************************************************************)
PyClamp(i, n) ==
    LET j == IF i < 0 THEN i + n ELSE i
    IN IF j < 0 THEN 0 ELSE IF j > n THEN n ELSE j

\* s[a:b]
PySlice(s, a, b) == SubSeq(s, PyClamp(a, Len(s)) + 1, PyClamp(b, Len(s)))

PySetSliceInserts(s, a, b, new) ==
    LET lo == PyClamp(a, Len(s))
    IN (SubSeq(s, 1, lo) \o new) \o SubSeq(s, lo + 1, Len(s))

\* s[a:b] = new
PySetSlice(s, a, b, new) ==
    LET lo == PyClamp(a, Len(s))
        hi == IF PyClamp(b, Len(s)) < lo THEN lo ELSE PyClamp(b, Len(s))
    IN (SubSeq(s, 1, lo) \o new) \o SubSeq(s, hi + 1, Len(s))

\* the position s[i] names, or -1 when s[i] raises IndexError
PyIndex(s, i) ==
    LET j == IF i < 0 THEN i + Len(s) ELSE i
    IN IF j < 0 \/ j >= Len(s) THEN -1 ELSE j

(***************************************************************************)
(* token_spans_to_tag_sequence                                             *)
(***************************************************************************)
RECURSIVE InsertByStart(_, _, _)
\* sorted(..., key=start) is stable: x goes behind every element whose start
\* is not larger
InsertByStart(sorted, x, k) ==
    IF k > Len(sorted) THEN Append(sorted, x)
    ELSE IF sorted[k].start > x.start
    THEN (Append(SubSeq(sorted, 1, k - 1), x)) \o SubSeq(sorted, k, Len(sorted))
    ELSE InsertByStart(sorted, x, k + 1)

RECURSIVE SortByStart(_, _, _)
SortByStart(sp, k, acc) ==
    IF k > Len(sp) THEN acc
    ELSE SortByStart(sp, k + 1, InsertByStart(acc, sp[k], 1))

Repeat(x, n) == [i \in 1..n |-> x]

InsideCountOffByOne(previous_tags) == Len(previous_tags)

\* the number of I tags written behind the B tag
InsideCount(previous_tags) == Len(previous_tags) - 1

RECURSIVE place_spans_skips_overlap(_, _, _, _)
place_spans_skips_overlap(sp, k, off, tg) ==
    IF k > Len(sp) THEN Ok(tg)
    ELSE LET _start == sp[k].start - off
             _end == sp[k].end - off
             previous_tags == PySlice(tg, _start, _end)
         IN IF \E i \in 1..Len(previous_tags) : previous_tags[i] # O
            THEN place_spans_skips_overlap(sp, k + 1, off, tg)
            ELSE IF PyIndex(tg, _start) < 0 THEN Raise("IndexError")
            ELSE place_spans_skips_overlap(sp, k + 1, off,
                     PySetSlice([tg EXCEPT ![PyIndex(tg, _start) + 1] = Tag("B", sp[k].label)],
                                _start + 1, _end,
                                Repeat(Tag("I", sp[k].label), InsideCount(previous_tags))))

RECURSIVE place_spans_no_assert(_, _, _, _)
place_spans_no_assert(sp, k, off, tg) ==
    IF k > Len(sp) THEN Ok(tg)
    ELSE LET _start == sp[k].start - off
             _end == sp[k].end - off
             previous_tags == PySlice(tg, _start, _end)
         IN IF PyIndex(tg, _start) < 0 THEN Raise("IndexError")
            ELSE place_spans_no_assert(sp, k + 1, off,
                     PySetSlice([tg EXCEPT ![PyIndex(tg, _start) + 1] = Tag("B", sp[k].label)],
                                _start + 1, _end,
                                Repeat(Tag("I", sp[k].label), InsideCount(previous_tags))))

RECURSIVE place_spans(_, _, _, _)
\* the for loop: the IOB2 block of each span, in start order
place_spans(sp, k, off, tg) ==
    IF k > Len(sp) THEN Ok(tg)
    ELSE LET _start == sp[k].start - off
             _end == sp[k].end - off
             previous_tags == PySlice(tg, _start, _end)
         IN IF \E i \in 1..Len(previous_tags) : previous_tags[i] # O
            THEN Raise("AssertionError")
            ELSE IF PyIndex(tg, _start) < 0 THEN Raise("IndexError")
            ELSE place_spans(sp, k + 1, off,
                     PySetSlice([tg EXCEPT ![PyIndex(tg, _start) + 1] = Tag("B", sp[k].label)],
                                _start + 1, _end,
                                Repeat(Tag("I", sp[k].label), InsideCount(previous_tags))))

RecodeNoElse(tg, scheme) ==
    CASE scheme = "BIOUL" -> to_bioul(tg, "IOB2")
      [] scheme = "BOUL" -> to_boul(tg, "IOB2")
      [] OTHER -> Ok(tg)

\* the recoding of the normalized IOB2 tags into the requested scheme
Recode(tg, scheme) ==
    CASE scheme = "BIOUL" -> to_bioul(tg, "IOB2")
      [] scheme = "BOUL" -> to_boul(tg, "IOB2")
      [] scheme = "IOB2" -> Ok(tg)
      [] OTHER -> Raise("ValueError")

token_spans_to_tag_sequence(sp, n, scheme, off, ill_formed) ==
    LET placed == place_spans(SortByStart(sp, 1, <<>>), 1, off, Repeat(O, n))
    IN IF placed.err # "" THEN placed
       ELSE LET norm == IF ill_formed THEN fix_encoding(placed.tags, "IOB2")
                        ELSE remove_encoding(placed.tags, "IOB2")
            IN IF norm.err # "" THEN norm ELSE Recode(norm.tags, scheme)

(***************************************************************************)
(* tag_sequence_to_token_spans                                             *)
(***************************************************************************)
tag_sequence_to_token_spans(s, scheme, ignore, ill_formed) ==
    LET norm == IF ill_formed THEN fix_ill_formed_tag_sequence(s, scheme)
                ELSE remove_ill_formed_tag_sequence(s, scheme)
    IN IF norm.err # "" THEN RaiseSpans(norm.err)
       ELSE CASE scheme = "BIOUL" -> bioul_tags_to_spans(norm.tags, ignore)
              [] scheme = "BOUL" -> boul_tags_to_spans(norm.tags, ignore)
              [] scheme = "IOB2" ->
                    OkSpans(iob2_tags_to_spans(s, ignore))
              [] OTHER -> RaiseSpans("ValueError")

\* span_annotations_to_labeled_spans hands the encoder (start_idx, end_idx + 1)
EndExclusive(sp) == [i \in 1..Len(sp) |-> [sp[i] EXCEPT !.end = @ + 1]]

\* sp holds the token indices (start_idx, end_idx) the char-to-token mapper
\* yields for the span annotations of the window; the encoder is called with
\* its default offset
convert_span_annotations_to_tag_sequence(sp, n, ill_formed, encoding) ==
    IF \E i \in 1..Len(sp) : sp[i].start < 0 \/ sp[i].end < 0 \/ sp[i].start > sp[i].end
    THEN Raise("ValueError")
    ELSE token_spans_to_tag_sequence(EndExclusive(sp), n, encoding, 0, ill_formed)

\* the caller's tag list after tag_sequence_to_token_spans: the normalizers
\* return new lists and the extractors only read tag_sequence[index]
TagSequenceAfterCall(s, scheme, ill_formed) == s

LabeledSpansSortedInPlace(sp) == SortByStart(sp, 1, <<>>)

\* the caller's span list after token_spans_to_tag_sequence: sorted() builds
\* a new list and rebinds the local name, the loop only reads the spans
LabeledSpansAfterCall(sp) == sp

(***************************************************************************)
(* The callers' data                                                       *)
(***************************************************************************)
TagSeqs == UNION {[1..n -> Alphabet] : n \in 0..MaxLen}

\* spans with 0 <= start <= end that reach at most one position behind a
\* sequence of n tokens
SpanSet(n) ==
    LET last == IF n + 1 < MaxBase THEN n + 1 ELSE MaxBase
    IN {sp \in [label : Labels, start : 0..last, end : 0..last] : sp.start <= sp.end}
SpanLists(n) == UNION {[1..k -> SpanSet(n)] : k \in 0..MaxSpans}

IgnoreSets == {{}, {"b"}}

(***************************************************************************)
(* SpecTags: a caller holds a tag sequence and calls the decoders, the     *)
(* recoders and the repair / removal functions on it                       *)
(***************************************************************************)
InitTags ==
    /\ tag_sequence \in TagSeqs
    /\ labeled_spans = <<>>
    /\ base_sequence_length = 0
    /\ pc = "start"
    /\ coding_scheme = "IOB2"
    /\ include_ill_formed = TRUE
    /\ offset = 0
    /\ classes_to_ignore = {}
    /\ tags = <<>>
    /\ spans = <<>>
    /\ err = ""
    /\ NoDocument
    /\ NoMetric
    /\ NoDataset

Inputs == <<tag_sequence, labeled_spans, base_sequence_length>>

ReturnTags(r) == tags' = r.tags /\ err' = r.err /\ spans' = <<>>
ReturnSpans(r) == spans' = r.spans /\ err' = r.err /\ tags' = <<>>

TagSequenceToTokenSpans ==
    /\ pc = "start"
    /\ \E scheme \in Schemes \cup {UnknownScheme}, flag \in BOOLEAN, ignore \in IgnoreSets :
          /\ coding_scheme' = scheme
          /\ include_ill_formed' = flag
          /\ classes_to_ignore' = ignore
          /\ ReturnSpans(tag_sequence_to_token_spans(tag_sequence, scheme, ignore, flag))
          /\ tag_sequence' = TagSequenceAfterCall(tag_sequence, scheme, flag)
    /\ pc' = "tag_sequence_to_token_spans"
    /\ UNCHANGED <<labeled_spans, base_sequence_length, offset>>
    /\ UNCHANGED <<document_vars, metric_vars, dataset_vars>>

\* the spans just extracted are encoded again as they are
Reencode ==
    /\ pc = "tag_sequence_to_token_spans"
    /\ err = ""
    /\ ReturnTags(token_spans_to_tag_sequence(spans, Len(tag_sequence), coding_scheme,
                                              0, include_ill_formed))
    /\ pc' = "reencode"
    /\ UNCHANGED <<Inputs, coding_scheme, include_ill_formed, offset, classes_to_ignore>>
    /\ UNCHANGED <<document_vars, metric_vars, dataset_vars>>

\* the spans just extracted are encoded again with the end made exclusive
ReencodeEndExclusive ==
    /\ pc = "tag_sequence_to_token_spans"
    /\ err = ""
    /\ ReturnTags(token_spans_to_tag_sequence(EndExclusive(spans), Len(tag_sequence),
                                              coding_scheme, 0, include_ill_formed))
    /\ pc' = "reencode_end_exclusive"
    /\ UNCHANGED <<Inputs, coding_scheme, include_ill_formed, offset, classes_to_ignore>>
    /\ UNCHANGED <<document_vars, metric_vars, dataset_vars>>

TagsToSpans ==
    /\ pc = "start"
    /\ \E scheme \in Schemes, ignore \in IgnoreSets :
          /\ coding_scheme' = scheme
          /\ classes_to_ignore' = ignore
          /\ ReturnSpans(CASE scheme = "IOB2" -> OkSpans(iob2_tags_to_spans(tag_sequence, ignore))
                           [] scheme = "BIOUL" -> bioul_tags_to_spans(tag_sequence, ignore)
                           [] scheme = "BOUL" -> boul_tags_to_spans(tag_sequence, ignore))
    /\ pc' = "tags_to_spans"
    /\ UNCHANGED <<Inputs, include_ill_formed, offset>>
    /\ UNCHANGED <<document_vars, metric_vars, dataset_vars>>

ToBioul ==
    /\ pc = "start"
    /\ \E encoding \in {"IOB1", "IOB2", UnknownScheme} :
          /\ coding_scheme' = encoding
          /\ ReturnTags(to_bioul(tag_sequence, encoding))
    /\ pc' = "to_bioul"
    /\ UNCHANGED <<Inputs, include_ill_formed, offset, classes_to_ignore>>
    /\ UNCHANGED <<document_vars, metric_vars, dataset_vars>>

\* bioul_to_bio2(to_bioul(tag_sequence, "IOB2"))
BioulToBio2 ==
    /\ pc = "to_bioul"
    /\ coding_scheme = "IOB2"
    /\ err = ""
    /\ ReturnTags(Ok(bioul_to_bio2(tags)))
    /\ pc' = "bioul_to_bio2"
    /\ UNCHANGED <<Inputs, coding_scheme, include_ill_formed, offset, classes_to_ignore>>
    /\ UNCHANGED <<document_vars, metric_vars, dataset_vars>>

BioulToBoul ==
    /\ pc = "start"
    /\ ReturnTags(Ok(bioul_to_boul(tag_sequence)))
    /\ pc' = "bioul_to_boul"
    /\ UNCHANGED <<Inputs, coding_scheme, include_ill_formed, offset, classes_to_ignore>>
    /\ UNCHANGED <<document_vars, metric_vars, dataset_vars>>

BoulToBioul ==
    /\ pc = "start"
    /\ ReturnTags(boul_to_bioul(tag_sequence))
    /\ pc' = "boul_to_bioul"
    /\ UNCHANGED <<Inputs, coding_scheme, include_ill_formed, offset, classes_to_ignore>>
    /\ UNCHANGED <<document_vars, metric_vars, dataset_vars>>

\* boul_to_bioul(bioul_to_boul(tag_sequence))
BoulToBioulBack ==
    /\ pc = "bioul_to_boul"
    /\ ReturnTags(boul_to_bioul(tags))
    /\ pc' = "boul_to_bioul_back"
    /\ UNCHANGED <<Inputs, coding_scheme, include_ill_formed, offset, classes_to_ignore>>
    /\ UNCHANGED <<document_vars, metric_vars, dataset_vars>>

FixEncoding ==
    /\ pc = "start"
    /\ \E scheme \in Schemes \cup {UnknownScheme} :
          /\ coding_scheme' = scheme
          /\ ReturnTags(fix_encoding(tag_sequence, scheme))
    /\ pc' = "fix"
    /\ UNCHANGED <<Inputs, include_ill_formed, offset, classes_to_ignore>>
    /\ UNCHANGED <<document_vars, metric_vars, dataset_vars>>

\* the repaired sequence is repaired once more
FixAgain ==
    /\ pc = "fix"
    /\ err = ""
    /\ ReturnTags(fix_encoding(tags, coding_scheme))
    /\ pc' = "fix_again"
    /\ UNCHANGED <<Inputs, coding_scheme, include_ill_formed, offset, classes_to_ignore>>
    /\ UNCHANGED <<document_vars, metric_vars, dataset_vars>>

RemoveEncoding ==
    /\ pc = "start"
    /\ \E scheme \in Schemes \cup {UnknownScheme} :
          /\ coding_scheme' = scheme
          /\ ReturnTags(remove_encoding(tag_sequence, scheme))
    /\ pc' = "remove"
    /\ UNCHANGED <<Inputs, include_ill_formed, offset, classes_to_ignore>>
    /\ UNCHANGED <<document_vars, metric_vars, dataset_vars>>

NextTags ==
    \/ TagSequenceToTokenSpans
    \/ Reencode
    \/ ReencodeEndExclusive
    \/ TagsToSpans
    \/ ToBioul
    \/ BioulToBio2
    \/ BioulToBoul
    \/ BoulToBioul
    \/ BoulToBioulBack
    \/ FixEncoding
    \/ FixAgain
    \/ RemoveEncoding

SpecTags == InitTags /\ [][NextTags]_vars

(***************************************************************************)
(* SpecSpans: a caller holds a span list and a token count and calls the   *)
(* encoder                                                                 *)
(***************************************************************************)
InitSpans ==
    /\ tag_sequence = <<>>
    /\ base_sequence_length \in 0..MaxBase
    /\ labeled_spans \in SpanLists(base_sequence_length)
    /\ pc = "start"
    /\ coding_scheme = "IOB2"
    /\ include_ill_formed = TRUE
    /\ offset = 0
    /\ classes_to_ignore = {}
    /\ tags = <<>>
    /\ spans = <<>>
    /\ err = ""
    /\ NoDocument
    /\ NoMetric
    /\ NoDataset

TokenSpansToTagSequence ==
    /\ pc = "start"
    /\ \E scheme \in Schemes \cup {UnknownScheme}, off \in 0..MaxOffset, flag \in BOOLEAN :
          /\ coding_scheme' = scheme
          /\ offset' = off
          /\ include_ill_formed' = flag
          /\ ReturnTags(token_spans_to_tag_sequence(labeled_spans, base_sequence_length,
                                                    scheme, off, flag))
    /\ labeled_spans' = LabeledSpansAfterCall(labeled_spans)
    /\ pc' = "token_spans_to_tag_sequence"
    /\ UNCHANGED <<tag_sequence, base_sequence_length, classes_to_ignore>>
    /\ UNCHANGED <<document_vars, metric_vars, dataset_vars>>

\* labeled_spans holds the (start_idx, end_idx) token indices of the span
\* annotations
ConvertSpanAnnotationsToTagSequence ==
    /\ pc = "start"
    /\ \E encoding \in Schemes, flag \in BOOLEAN :
          /\ coding_scheme' = encoding
          /\ include_ill_formed' = flag
          /\ ReturnTags(convert_span_annotations_to_tag_sequence(
                            labeled_spans, base_sequence_length, flag, encoding))
    /\ pc' = "convert_span_annotations_to_tag_sequence"
    /\ UNCHANGED <<Inputs, offset, classes_to_ignore>>
    /\ UNCHANGED <<document_vars, metric_vars, dataset_vars>>

NextSpans ==
    \/ TokenSpansToTagSequence
    \/ ConvertSpanAnnotationsToTagSequence

SpecSpans == InitSpans /\ [][NextSpans]_vars

(***************************************************************************)
(* The grammar of each scheme                                              *)
(***************************************************************************)
WellFormedIOB2(s) ==
    /\ InAlphabet(s, "IOB2")
    /\ \A i \in 1..Len(s) :
          s[i].r = "I" => i > 1 /\ s[i - 1].r \in {"B", "I"} /\ s[i - 1].l = s[i].l

WellFormedBIOUL(s) ==
    /\ InAlphabet(s, "BIOUL")
    /\ \A i \in 1..Len(s) :
          /\ s[i].r \in {"B", "I"} =>
                i < Len(s) /\ s[i + 1].r \in {"I", "L"} /\ s[i + 1].l = s[i].l
          /\ s[i].r \in {"I", "L"} =>
                i > 1 /\ s[i - 1].r \in {"B", "I"} /\ s[i - 1].l = s[i].l

\* position i lies strictly inside a run B-l O* L-l of t
InsideRun(t, i, l) ==
    \E j \in 1..(i - 1), k \in (i + 1)..Len(t) :
        /\ t[j] = Tag("B", l)
        /\ t[k] = Tag("L", l)
        /\ \A m \in (j + 1)..(k - 1) : t[m] = O

WellFormedBOUL(s) ==
    /\ InAlphabet(s, "BOUL")
    /\ \A i \in 1..Len(s) :
          /\ s[i].r = "B" =>
                \E k \in (i + 1)..Len(s) :
                    s[k] = Tag("L", s[i].l) /\ \A m \in (i + 1)..(k - 1) : s[m] = O
          /\ s[i].r = "L" =>
                \E j \in 1..(i - 1) :
                    s[j] = Tag("B", s[i].l) /\ \A m \in (j + 1)..(i - 1) : s[m] = O

WellFormed(s, scheme) ==
    CASE scheme = "IOB2" -> WellFormedIOB2(s)
      [] scheme = "BIOUL" -> WellFormedBIOUL(s)
      [] scheme = "BOUL" -> WellFormedBOUL(s)
      [] OTHER -> FALSE

(***************************************************************************)
(* Properties of the encoder                                               *)
(***************************************************************************)
Encoded == pc = "token_spans_to_tag_sequence"

\* no two spans of the list share a position of start..end
NonOverlapping(sp) ==
    \A i, j \in 1..Len(sp) :
        i # j => sp[i].end < sp[j].start \/ sp[j].end < sp[i].start

\* IOB2, default offset, pairwise non-overlapping spans that end in the sequence
DisjointIOB2 ==
    /\ Encoded
    /\ coding_scheme = "IOB2"
    /\ offset = 0
    /\ NonOverlapping(labeled_spans)
    /\ \A i \in 1..Len(labeled_spans) : labeled_spans[i].end < base_sequence_length

\* the tag at position p when every span covers start..last(span)
BlockTag(p, last(_)) ==
    LET sp == labeled_spans
    IN IF \E i \in 1..Len(sp) : sp[i].start = p
       THEN Tag("B", sp[CHOOSE i \in 1..Len(sp) : sp[i].start = p].label)
       ELSE IF \E i \in 1..Len(sp) : sp[i].start < p /\ p <= last(sp[i])
       THEN Tag("I", sp[CHOOSE i \in 1..Len(sp) :
                            sp[i].start < p /\ p <= last(sp[i])].label)
       ELSE O

InclusiveEnd(span) == span.end
ExclusiveEnd(span) == span.end - 1

\* C1 as stated: for pairwise non-overlapping spans inside the sequence the
\* IOB2 result holds B-label at start, I-label at start+1..end (end
\* inclusive) and O at every position no span covers.
C1_EndInclusive ==
    DisjointIOB2 =>
        /\ err = ""
        /\ Len(tags) = base_sequence_length
        /\ \A p \in 0..(base_sequence_length - 1) : At(tags, p) = BlockTag(p, InclusiveEnd)

\* C1 amended: the end index is exclusive. The IOB2 result holds B-label at
\* start, I-label at start+1..end-1 and O everywhere else, the position end
\* of a span with start < end included.
C1_EndExclusive ==
    DisjointIOB2 =>
        /\ err = ""
        /\ Len(tags) = base_sequence_length
        /\ \A p \in 0..(base_sequence_length - 1) : At(tags, p) = BlockTag(p, ExclusiveEnd)

C1_Witness ==
    /\ DisjointIOB2
    /\ labeled_spans = <<Span("a", 0, 2)>>
    /\ base_sequence_length = 3
    /\ tags = <<Tag("B", "a"), Tag("I", "a"), O>>

\* C10 as stated: with a scheme outside {IOB2, BIOUL, BOUL} the call ends
\* with the unknown-scheme ValueError for every span list and every length,
\* overlapping span lists included, and returns no tag sequence.
C10_AlwaysValueError ==
    Encoded /\ coding_scheme = UnknownScheme /\ offset = 0 => err = "ValueError" /\ tags = <<>>

\* every start index lies in the sequence and no two spans share a position
Placeable(sp, n) ==
    /\ NonOverlapping(sp)
    /\ \A i \in 1..Len(sp) : sp[i].start < n

\* two spans that each cover at least one position share a position of
\* their ranges start..end-1
SharePosition(sp) ==
    \E i, j \in 1..Len(sp) :
        /\ i # j
        /\ sp[i].start < sp[i].end
        /\ sp[j].start < sp[j].end
        /\ sp[i].start < sp[j].end
        /\ sp[j].start < sp[i].end

\* C10 amended: with a scheme outside {IOB2, BIOUL, BOUL} no tag sequence is
\* returned; the call ends with the unknown-scheme ValueError whenever the
\* spans can be placed (pairwise non-overlapping, every start inside the
\* sequence), and with the AssertionError of the overlap check, or the
\* IndexError of a start outside the sequence, when two spans share a
\* position of their ranges start..end-1.
C10_ValueErrorAfterPlacement ==
    Encoded /\ coding_scheme = UnknownScheme /\ offset = 0 =>
        /\ tags = <<>>
        /\ err # ""
        /\ Placeable(labeled_spans, base_sequence_length) => err = "ValueError"
        /\ SharePosition(labeled_spans) => err \in {"AssertionError", "IndexError"}

C10_Witness ==
    /\ Encoded
    /\ coding_scheme = UnknownScheme
    /\ offset = 0
    /\ labeled_spans = <<Span("a", 0, 1), Span("b", 2, 2)>>
    /\ Placeable(labeled_spans, base_sequence_length)
    /\ base_sequence_length = 3
    /\ err = "ValueError"

(***************************************************************************)
(* Properties of the decoder, the recoders and the repair / removal        *)
(***************************************************************************)
Decoded == pc = "tag_sequence_to_token_spans"

\* the decoder succeeds on a well-formed sequence
DecodesWellFormed ==
    Decoded /\ WellFormed(tag_sequence, coding_scheme) => err = ""

\* C2 as stated: for a well-formed sequence s of scheme X, encoding the spans
\* extracted from s at length len(s) and scheme X returns exactly s.
C2_RoundTrip ==
    /\ DecodesWellFormed
    /\ pc = "reencode" /\ classes_to_ignore = {} /\ WellFormed(tag_sequence, coding_scheme)
          => err = "" /\ tags = tag_sequence

\* C2 amended: for a well-formed sequence s of scheme X, encoding the spans
\* extracted from s, each with its end index raised by one (the encoder
\* reads the end as exclusive), at length len(s) and scheme X returns
\* exactly s.
C2_RoundTripEndExclusive ==
    /\ DecodesWellFormed
    /\ pc = "reencode_end_exclusive" /\ classes_to_ignore = {}
          /\ WellFormed(tag_sequence, coding_scheme)
          => err = "" /\ tags = tag_sequence

C2_Witness ==
    /\ pc = "reencode_end_exclusive"
    /\ classes_to_ignore = {}
    /\ coding_scheme = "BOUL"
    /\ tag_sequence = <<Tag("B", "a"), O, Tag("L", "a")>>
    /\ tags = tag_sequence

\* the scheme's extractor
Extract(scheme, s, ignore) ==
    CASE scheme = "IOB2" -> OkSpans(iob2_tags_to_spans(s, ignore))
      [] scheme = "BIOUL" -> bioul_tags_to_spans(s, ignore)
      [] scheme = "BOUL" -> boul_tags_to_spans(s, ignore)

\* C3: for each scheme, tag_sequence_to_token_spans returns what the scheme's
\* extractor finds in the normalized sequence (repaired when
\* include_ill_formed, ill-formed runs removed otherwise), not in the raw one.
C3_ExtractsFromNormalized ==
    Decoded /\ coding_scheme \in Schemes =>
        LET norm == IF include_ill_formed
                    THEN fix_encoding(tag_sequence, coding_scheme)
                    ELSE remove_encoding(tag_sequence, coding_scheme)
        IN norm.err = "" =>
              [err |-> err, spans |-> spans]
                  = Extract(coding_scheme, norm.tags, classes_to_ignore)

\* C4: for a well-formed IOB2 sequence, to_bioul(s, "IOB2") has the length of
\* s, keeps every O and every label, turns a run of a single B-l into U-l and
\* a run B-l I-l^k (k >= 1) into B-l I-l^(k-1) L-l.
C4_ToBioul ==
    pc = "to_bioul" /\ coding_scheme = "IOB2" /\ WellFormedIOB2(tag_sequence) =>
        /\ err = ""
        /\ Len(tags) = Len(tag_sequence)
        /\ \A i \in 1..Len(tag_sequence) :
              LET t == tag_sequence[i]
                  goes_on == i < Len(tag_sequence) /\ tag_sequence[i + 1] = Tag("I", t.l)
              IN tags[i] = CASE t.r = "O" -> O
                             [] t.r = "B" -> Tag(IF goes_on THEN "B" ELSE "U", t.l)
                             [] t.r = "I" -> Tag(IF goes_on THEN "I" ELSE "L", t.l)

C4_Witness ==
    /\ pc = "to_bioul"
    /\ coding_scheme = "IOB2"
    /\ tag_sequence = <<Tag("B", "a"), Tag("I", "a"), Tag("B", "b")>>
    /\ tags = <<Tag("B", "a"), Tag("L", "a"), Tag("U", "b")>>

\* C5: for a well-formed BIOUL sequence s, boul_to_bioul(bioul_to_boul(s)) = s.
C5_BoulRoundTrip ==
    pc = "boul_to_bioul_back" /\ WellFormedBIOUL(tag_sequence) =>
        err = "" /\ tags = tag_sequence

C5_Witness ==
    /\ pc = "boul_to_bioul_back"
    /\ tag_sequence = <<Tag("B", "a"), Tag("I", "a"), Tag("L", "a")>>
    /\ tags = tag_sequence

\* C6: for a well-formed IOB2 sequence s, recoding s to BIOUL succeeds and
\* recoding the result back to IOB2 returns s.
C6_Bio2RoundTrip ==
    /\ pc = "to_bioul" /\ coding_scheme = "IOB2" /\ WellFormedIOB2(tag_sequence) => err = ""
    /\ pc = "bioul_to_bio2" /\ WellFormedIOB2(tag_sequence) => err = "" /\ tags = tag_sequence

C6_Witness ==
    /\ pc = "bioul_to_bio2"
    /\ tag_sequence = <<Tag("B", "a"), Tag("I", "a"), Tag("B", "a")>>
    /\ tags = tag_sequence

Repaired == pc = "fix" /\ coding_scheme \in Schemes /\ InAlphabet(tag_sequence, coding_scheme)

\* C7 as stated: for each scheme and each sequence over its alphabet the
\* repaired sequence has the same length and every position with a non-O tag
\* of label l keeps a non-O tag of label l.
C7_KeepsEveryLabel ==
    Repaired =>
        /\ err = ""
        /\ Len(tags) = Len(tag_sequence)
        /\ \A i \in 1..Len(tag_sequence) :
              tag_sequence[i].r # "O" =>
                  tags[i].r # "O" /\ tags[i].l = tag_sequence[i].l

\* C7 amended: the repaired sequence has the same length; under fix_bio and
\* fix_bioul every position with a non-O tag of label l keeps a non-O tag of
\* label l; under fix_boul such a position keeps a non-O tag of label l or
\* becomes an inside O of a repaired run B-l O* L-l of the same label.
C7_KeepsLabelOrInside ==
    Repaired =>
        /\ err = ""
        /\ Len(tags) = Len(tag_sequence)
        /\ \A i \in 1..Len(tag_sequence) :
              tag_sequence[i].r # "O" =>
                  \/ tags[i].r # "O" /\ tags[i].l = tag_sequence[i].l
                  \/ /\ coding_scheme = "BOUL"
                     /\ tags[i] = O
                     /\ InsideRun(tags, i, tag_sequence[i].l)

C7_Witness ==
    /\ Repaired
    /\ coding_scheme = "BOUL"
    /\ tag_sequence = <<Tag("B", "a"), Tag("U", "a"), Tag("L", "a")>>
    /\ tags = <<Tag("B", "a"), O, Tag("L", "a")>>

\* C8: for each scheme the result of the removal has the length of s and
\* holds at every position the tag of s or O.
C8_RemovalOnlySubtracts ==
    pc = "remove" /\ coding_scheme \in Schemes /\ InAlphabet(tag_sequence, coding_scheme) =>
        /\ err = ""
        /\ Len(tags) = Len(tag_sequence)
        /\ \A i \in 1..Len(tag_sequence) : tags[i] = tag_sequence[i] \/ tags[i] = O

C8_Witness ==
    /\ pc = "remove"
    /\ coding_scheme = "IOB2"
    /\ tag_sequence = <<Tag("B", "a"), Tag("I", "a"), Tag("I", "b")>>
    /\ tags = <<Tag("B", "a"), Tag("I", "a"), O>>

\* C9: for each scheme and each sequence over its alphabet the repaired
\* sequence is well-formed under the scheme's grammar, and repairing it a
\* second time returns it unchanged.
C9_RepairWellFormed ==
    [][/\ (pc' = "fix" /\ coding_scheme' \in Schemes
              /\ InAlphabet(tag_sequence', coding_scheme'))
          => err' = "" /\ WellFormed(tags', coding_scheme')
       /\ (pc = "fix" /\ pc' = "fix_again") => err' = "" /\ tags' = tags]_vars

C9_Witness ==
    /\ pc = "fix_again"
    /\ coding_scheme = "BIOUL"
    /\ tag_sequence = <<Tag("B", "a"), Tag("I", "a"), Tag("I", "a")>>
    /\ tags = <<Tag("B", "a"), Tag("I", "a"), Tag("L", "a")>>

(***************************************************************************)
(* Overlapping spans, foreign tags, frame and shape of the encoder         *)
(***************************************************************************)
\* a known scheme, the default offset, every start inside the sequence and
\* two spans sharing a position of their ranges start..end-1
OverlapCase ==
    /\ Encoded
    /\ coding_scheme \in Schemes
    /\ offset = 0
    /\ \A i \in 1..Len(labeled_spans) : labeled_spans[i].start < base_sequence_length
    /\ SharePosition(labeled_spans)

\* C11 as stated: under include_ill_formed=True a span that overlaps an
\* earlier-placed span raises no exception; it is skipped and a tag sequence
\* of the other spans is returned.
C11_OverlapSkipped ==
    OverlapCase /\ include_ill_formed =>
        err = "" /\ Len(tags) = base_sequence_length

\* C11 amended: under include_ill_formed=True (and every start inside the
\* sequence) a span that shares a position of its range start..end-1 with
\* an earlier-placed span ends the call with the AssertionError of the
\* overlap check; no span is skipped and no tag sequence is returned.
C11_OverlapAsserts ==
    OverlapCase /\ include_ill_formed =>
        err = "AssertionError" /\ tags = <<>>

C11_Witness ==
    /\ OverlapCase
    /\ include_ill_formed
    /\ coding_scheme = "IOB2"
    /\ labeled_spans = <<Span("a", 0, 2), Span("b", 1, 3)>>
    /\ base_sequence_length = 3
    /\ err = "AssertionError"

HasRole(s, roles) == \E i \in 1..Len(s) : s[i].r \in roles

\* C13: a tag whose role letter is outside the scheme's alphabet ends the call
\* with InvalidTagSequence and no sequence: an L- or U- tag under fix_bio and
\* under to_bioul(encoding=IOB2), an M- tag under fix_bioul and fix_boul.
C13_ForeignRoleIsFatal ==
    /\ (pc = "fix" /\ coding_scheme = "IOB2" /\ HasRole(tag_sequence, {"L", "U"}))
          => err = "InvalidTagSequence" /\ tags = <<>>
    /\ (pc = "to_bioul" /\ coding_scheme = "IOB2" /\ HasRole(tag_sequence, {"L", "U"}))
          => err = "InvalidTagSequence" /\ tags = <<>>
    /\ (pc = "fix" /\ coding_scheme \in {"BIOUL", "BOUL"} /\ HasRole(tag_sequence, {"M"}))
          => err = "InvalidTagSequence" /\ tags = <<>>

C13_Witness ==
    /\ pc = "to_bioul"
    /\ coding_scheme = "IOB2"
    /\ tag_sequence = <<Tag("B", "a"), Tag("I", "a"), Tag("L", "a")>>
    /\ err = "InvalidTagSequence"

\* C14: bioul_tags_to_spans raises InvalidTagSequence on every ill-formed
\* sequence over the BIOUL alphabet and returns spans only for well-formed
\* ones.
C14_ExtractorRejectsIllFormed ==
    (pc = "tags_to_spans" /\ coding_scheme = "BIOUL" /\ InAlphabet(tag_sequence, "BIOUL")) =>
        IF WellFormedBIOUL(tag_sequence) THEN err = ""
        ELSE err = "InvalidTagSequence" /\ spans = <<>>

(***************************************************************************)
(* SpecFrame: a caller holding either a tag sequence or a span list calls  *)
(* the decoder or the encoder and looks at its argument afterwards         *)
(***************************************************************************)
InitFrame == InitTags \/ InitSpans

NextFrame ==
    \/ TagSequenceToTokenSpans
    \/ TokenSpansToTagSequence

SpecFrame == InitFrame /\ [][NextFrame]_vars

ProperSpans ==
    /\ Encoded
    /\ coding_scheme \in Schemes
    /\ offset = 0
    /\ ~SharePosition(labeled_spans)
    /\ \A i \in 1..Len(labeled_spans) :
          /\ labeled_spans[i].start < labeled_spans[i].end
          /\ labeled_spans[i].end <= base_sequence_length

Covers(span, p) == span.start <= p /\ p < span.end

\* the tag of position p of a span read as start..end-1
HalfOpenTag(span, p, scheme) ==
    LET role == IF scheme = "IOB2" THEN (IF p = span.start THEN "B" ELSE "I")
                ELSE IF span.end = span.start + 1 THEN "U"
                ELSE IF p = span.start THEN "B"
                ELSE IF p = span.end - 1 THEN "L"
                ELSE "I"
    IN IF scheme = "BOUL" /\ role = "I" THEN O ELSE Tag(role, span.label)

\* C16: the end index is exclusive. For non-overlapping spans with
\* start < end the span's tags stand at start..end-1 only: B I* in IOB2,
\* U or B I* L in BIOUL, U or B O* L in BOUL; every other position, the
\* position end included, is O.
C16_EndIsExclusive ==
    ProperSpans =>
        /\ err = ""
        /\ Len(tags) = base_sequence_length
        /\ \A p \in 0..(base_sequence_length - 1) :
              At(tags, p) =
                  IF \E i \in 1..Len(labeled_spans) : Covers(labeled_spans[i], p)
                  THEN HalfOpenTag(labeled_spans[CHOOSE i \in 1..Len(labeled_spans) :
                                                     Covers(labeled_spans[i], p)],
                                   p, coding_scheme)
                  ELSE O

C16_Witness ==
    /\ ProperSpans
    /\ coding_scheme = "BOUL"
    /\ labeled_spans = <<Span("a", 0, 3)>>
    /\ base_sequence_length = 3
    /\ tags = <<Tag("B", "a"), O, Tag("L", "a")>>

\* C17 as stated: whenever token_spans_to_tag_sequence returns, the result
\* has exactly base_sequence_length elements, for each scheme and every
\* span list.
C17_LengthAlways ==
    (Encoded /\ coding_scheme \in Schemes /\ err = "") =>
        Len(tags) = base_sequence_length

\* C17 amended: whenever token_spans_to_tag_sequence returns and no span
\* starts before the offset (always so with the default offset 0), the
\* result has exactly base_sequence_length elements, for each scheme and
\* every span list, zero-width spans and spans ending beyond the sequence
\* included.
C17_LengthFromOffset ==
    (/\ Encoded
     /\ coding_scheme \in Schemes
     /\ err = ""
     /\ \A i \in 1..Len(labeled_spans) : labeled_spans[i].start >= offset) =>
        Len(tags) = base_sequence_length

C17_Witness ==
    /\ Encoded
    /\ coding_scheme = "BIOUL"
    /\ offset = 0
    /\ labeled_spans = <<Span("a", 0, 0), Span("b", 1, 3)>>
    /\ base_sequence_length = 2
    /\ tags = <<Tag("U", "a"), Tag("U", "b")>>

\* the orders of the list sp
Orders(sp) ==
    {[i \in 1..Len(sp) |-> sp[q[i]]] :
        q \in {f \in [1..Len(sp) -> 1..Len(sp)] :
                  \A i, j \in 1..Len(sp) : i # j => f[i] # f[j]}}

\* C18: the outcome does not depend on the order of the span list: for every
\* order of the same spans the call returns the same tag sequence, or it
\* raises for every order.
C18_OrderIndependent ==
    (Encoded /\ coding_scheme \in Schemes /\ offset = 0) =>
        \A q \in Orders(labeled_spans) :
            LET other == token_spans_to_tag_sequence(q, base_sequence_length,
                                                     coding_scheme, offset,
                                                     include_ill_formed)
            IN IF err = "" THEN other = Ok(tags) ELSE other.err # ""

(***************************************************************************)
(* get_partitions_with_matcher, RegexPartitioner, SplitDocumentToPartitions *)
(*                                                                         *)
(* The text of a document is modelled by its length. A match of the        *)
(* pattern is [start, end, group]: group is the text of the selected match *)
(* group, document.text[match.start(g):match.end(g)].                      *)
(***************************************************************************)
MaxText == 3       \* longest document text
MaxMatches == 2    \* most matches of the pattern in one text

LabeledSpan(start, end, label) == [start |-> start, end |-> end, label |-> label]

initial_partition_label == "initial part"

GroupTexts == {"x", "y"}

\* what re.finditer yields: matches inside the text, from left to right, not
\* overlapping, each starting behind the start of the one before; an empty
\* match has the empty group text
Matches(n) ==
    {m \in [start : 0..n, end : 0..n, group : GroupTexts \cup {""}] :
        m.start <= m.end /\ (m.start = m.end <=> m.group = "")}

MatchLists(n) ==
    {ms \in UNION {[1..k -> Matches(n)] : k \in 0..MaxMatches} :
        \A i \in 1..(Len(ms) - 1) :
            ms[i].end <= ms[i + 1].start /\ ms[i].start < ms[i + 1].start}

\* label_whitelist is None or label in label_whitelist
Whitelisted(label, label_whitelist) ==
    \/ label_whitelist = None
    \/ label # None /\ label[1] \in label_whitelist[1]

\* the label of a match: the text of group label_group_id, or None
MatchLabel(match, label_group_id) ==
    IF label_group_id # None THEN Some(match.group) ELSE None

PartitionEndAtMatchEnd(match) == match.end

\* a partition ends where the next whitelisted match starts
PartitionEnd(match) == match.start

\* the partition pending at previous_start, if there is one
Pending(previous_start, previous_label, end) ==
    IF previous_start # None /\ previous_label # None
    THEN <<LabeledSpan(previous_start[1], end, previous_label[1])>>
    ELSE <<>>

RECURSIVE partitions_loop(_, _, _, _, _, _, _, _)
\* the for loop over the matches and the part behind it; out is what has
\* been yielded
partitions_loop(ms, k, text_len, label_group_id, label_whitelist, previous_start, previous_label, out) ==
    IF k > Len(ms) THEN out \o Pending(previous_start, previous_label, text_len)
    ELSE LET label == MatchLabel(ms[k], label_group_id)
         IN IF Whitelisted(label, label_whitelist)
            THEN partitions_loop(ms, k + 1, text_len, label_group_id, label_whitelist,
                                 Some(ms[k].start), label,
                                 out \o Pending(previous_start, previous_label,
                                                PartitionEnd(ms[k])))
            ELSE partitions_loop(ms, k + 1, text_len, label_group_id, label_whitelist,
                                 previous_start, previous_label, out)

get_partitions_with_matcher(ms, text_len, label_group_id, label_whitelist, skip_initial_partition) ==
    IF skip_initial_partition
    THEN partitions_loop(ms, 1, text_len, label_group_id, label_whitelist,
                         None, None, <<>>)
    ELSE partitions_loop(ms, 1, text_len, label_group_id, label_whitelist,
                         Some(0), Some(initial_partition_label), <<>>)

PartitionSpan(start, end) == [start |-> start, end |-> end]

\* split_document_into_partitions.py: the partition pending at
\* previous_start, which needs no label
PendingSpan(previous_start, end) ==
    IF previous_start # None THEN <<PartitionSpan(previous_start[1], end)>> ELSE <<>>

RECURSIVE split_partitions_loop(_, _, _, _, _, _, _)
\* split_document_into_partitions.py: the for loop over the matches and the
\* part behind it
split_partitions_loop(ms, k, text_len, label_group_id, label_whitelist, previous_start, out) ==
    IF k > Len(ms) THEN out \o PendingSpan(previous_start, text_len)
    ELSE IF Whitelisted(MatchLabel(ms[k], label_group_id), label_whitelist)
         THEN split_partitions_loop(ms, k + 1, text_len, label_group_id, label_whitelist,
                                    Some(ms[k].start),
                                    out \o PendingSpan(previous_start, PartitionEnd(ms[k])))
         ELSE split_partitions_loop(ms, k + 1, text_len, label_group_id, label_whitelist,
                                    previous_start, out)

split_get_partitions_with_matcher(ms, text_len, label_group_id, label_whitelist, skip_initial_partition) ==
    split_partitions_loop(ms, 1, text_len, label_group_id, label_whitelist,
                          IF skip_initial_partition THEN None ELSE Some(0), <<>>)

GroupIds == {None, Some(0)}
Whitelists == {None, Some({}), Some({"x"}), Some({"x", "y"})}

InitPartition ==
    /\ tag_sequence = <<>>
    /\ labeled_spans = <<>>
    /\ base_sequence_length = 0
    /\ pc = "start"
    /\ coding_scheme = "IOB2"
    /\ include_ill_formed = TRUE
    /\ offset = 0
    /\ classes_to_ignore = {}
    /\ tags = <<>>
    /\ spans = <<>>
    /\ err = ""
    /\ \E n \in 0..MaxText :
          /\ document = [text_len |-> n, partition |-> <<>>]
          /\ matches \in MatchLists(n)
    /\ processor = None
    /\ returned = None
    /\ NoMetric
    /\ NoDataset

\* the loop of __call__: every yielded partition is appended to
\* document.partition
AppendPartitions(label_group_id, label_whitelist, skip_initial_partition, partitions) ==
    /\ processor' = [label_group_id |-> label_group_id,
                     label_whitelist |-> label_whitelist,
                     skip_initial_partition |-> skip_initial_partition]
    /\ document' = [document EXCEPT !.partition = @ \o partitions]
    /\ returned' = document'
    /\ err' = ""
    /\ UNCHANGED <<codec_vars, matches, metric_vars, dataset_vars>>

RegexPartitionerCall ==
    /\ pc = "start"
    /\ \E gid \in GroupIds, wl \in Whitelists, skip \in BOOLEAN :
          AppendPartitions(gid, wl, skip,
              get_partitions_with_matcher(matches, document.text_len, gid, wl, skip))
    /\ pc' = "RegexPartitioner"

SplitDocumentToPartitionsCall ==
    /\ pc = "start"
    /\ \E gid \in GroupIds, wl \in Whitelists, skip \in BOOLEAN :
          AppendPartitions(gid, wl, skip,
              split_get_partitions_with_matcher(matches, document.text_len, gid, wl, skip))
    /\ pc' = "SplitDocumentToPartitions"

NextPartition ==
    \/ RegexPartitionerCall
    \/ SplitDocumentToPartitionsCall

SpecPartition == InitPartition /\ [][NextPartition]_vars

Partitioned == pc \in {"RegexPartitioner", "SplitDocumentToPartitions"}

\* the partitions follow each other without gap or overlap, and each one
\* behind the first starts at the start of a whitelisted match
Chained(p) ==
    /\ \A i \in 1..Len(p) : p[i].start <= p[i].end
    /\ \A i \in 1..(Len(p) - 1) : p[i].end = p[i + 1].start
    /\ \A i \in 2..Len(p) :
          \E k \in 1..Len(matches) :
              /\ matches[k].start = p[i].start
              /\ Whitelisted(MatchLabel(matches[k], processor.label_group_id),
                             processor.label_whitelist)

MaxEntities == 2   \* longest entity layer

Entity(start, end) == [start |-> start, end |-> end]

BinaryRelation(label, head, tail) == [label |-> label, head |-> head, tail |-> tail]

Entities == {Entity(0, 1), Entity(2, 3), Entity(0, 2)}

EntityLayers == UNION {[1..k -> Entities] : k \in 0..MaxEntities}

RelationLabels == {"rel"}

\* relation layers: empty, or one relation between two different entities
RelationLayers(entity_layer) ==
    {<<>>} \cup
    {<<BinaryRelation(x[1], entity_layer[x[2]], entity_layer[x[3]])>> :
        x \in {y \in RelationLabels \X (DOMAIN entity_layer) \X (DOMAIN entity_layer) :
                  entity_layer[y[2]] # entity_layer[y[3]]}}

PartitionLayers ==
    {<<>>,
     <<PartitionSpan(0, 2), PartitionSpan(0, 3)>>,
     <<PartitionSpan(0, 1), PartitionSpan(2, 3)>>}

is_contained_in(start_end, other_start_end) ==
    other_start_end.start <= start_end.start /\ start_end.end <= other_start_end.end

Abs(x) == IF x < 0 THEN -x ELSE x

MinOf(x, y) == IF x < y THEN x ELSE y

MaxOf(x, y) == IF x < y THEN y ELSE x

has_overlap(a, b) ==
    \/ a.start <= b.start /\ b.start < a.end
    \/ a.start < b.end /\ b.end <= a.end
    \/ b.start <= a.start /\ a.start < b.end
    \/ b.start < a.end /\ a.end <= b.end

\* twice the gap between the spans, negative when they overlap
distance_inner(a, b) ==
    LET d == MinOf(Abs(a.start - b.end), Abs(a.end - b.start))
    IN IF has_overlap(a, b) THEN -(2 * d) ELSE 2 * d

\* twice the length from the first start to the last end
distance_outer(a, b) == 2 * (MaxOf(a.end, b.end) - MinOf(a.start, b.start))

\* twice the distance of the centres
distance_center(a, b) == Abs((a.start + a.end) - (b.start + b.end))

DistanceTypes == {"inner", "outer", "center"}

distance(a, b, distance_type) ==
    CASE distance_type = "inner" -> distance_inner(a, b)
      [] distance_type = "outer" -> distance_outer(a, b)
      [] distance_type = "center" -> distance_center(a, b)

\* the entities of the layer inside the partition, all of them without one
available_entities(entity_layer, partition) ==
    IF partition # None
    THEN SelectSeq(entity_layer, LAMBDA entity : is_contained_in(entity, partition[1]))
    ELSE entity_layer

\* for head in available_entities: for tail in available_entities
HeadTailPairs(available) ==
    LET n == Len(available)
    IN [k \in 1..(n * n) |-> [head |-> available[((k - 1) \div n) + 1],
                              tail |-> available[((k - 1) % n) + 1]]]

RECURSIVE PairsOfPartitions(_, _, _)
\* the pairs the nested loops visit, partition after partition
PairsOfPartitions(entity_layer, available_partitions, k) ==
    IF k > Len(available_partitions) THEN <<>>
    ELSE HeadTailPairs(available_entities(entity_layer, available_partitions[k]))
         \o PairsOfPartitions(entity_layer, available_partitions, k + 1)

\* (head, tail) in available_relation_mapping
InMapping(pair, rel_layer) ==
    \E i \in DOMAIN rel_layer :
        rel_layer[i].head = pair.head /\ rel_layer[i].tail = pair.tail

HasKeyAlways(candidates, pair) == FALSE

\* (head, tail) is a key of candidates_with_distance
HasKey(candidates, pair) ==
    \E i \in DOMAIN candidates :
        candidates[i].head = pair.head /\ candidates[i].tail = pair.tail

RECURSIVE candidates_loop(_, _, _, _, _, _)
\* candidates_with_distance after the loops: a dict in insertion order, an
\* entry is [head, tail, d]
candidates_loop(pairs, k, rel_layer, max_distance, distance_type, candidates) ==
    IF k > Len(pairs) THEN candidates
    ELSE LET pair == pairs[k]
             d == distance(pair.head, pair.tail, distance_type)
             skip == \/ pair.head = pair.tail
                     \/ max_distance # None /\ d > 2 * max_distance[1]
                     \/ InMapping(pair, rel_layer)
                     \/ HasKey(candidates, pair)
         IN candidates_loop(pairs, k + 1, rel_layer, max_distance, distance_type,
                            IF skip THEN candidates
                            ELSE Append(candidates,
                                        [head |-> pair.head, tail |-> pair.tail, d |-> d]))

\* sorted(candidates_with_distance.items(), key=lambda item: item[1]): stable
sorted_by_distance(candidates) ==
    LET n == Len(candidates)
        rank(i) == 1 + Cardinality({j \in 1..n :
                        \/ candidates[j].d < candidates[i].d
                        \/ candidates[j].d = candidates[i].d /\ j < i})
    IN [r \in 1..n |-> candidates[CHOOSE i \in 1..n : rank(i) = r]]

RemoveAt(s, i) == SubSeq(s, 1, i - 1) \o SubSeq(s, i + 1, Len(s))

RECURSIVE Shuffles(_)
\* what random.shuffle can leave in the list
Shuffles(s) ==
    IF s = <<>> THEN {<<>>}
    ELSE UNION {{<<s[i]>> \o t : t \in Shuffles(RemoveAt(s, i))} : i \in DOMAIN s}

\* list[:n] for n >= 0
Take(s, n) == SubSeq(s, 1, MinOf(n, Len(s)))

\* int(len(rel_layer) * n_max_factor) for the factor num / den
n_max_by_factor(rel_layer, n_max_factor) ==
    (Len(rel_layer) * n_max_factor.num) \div n_max_factor.den

\* the two truncations of the candidate list
Truncated(candidates, rel_layer, n_max, n_max_factor) ==
    LET by_n_max == IF n_max # None THEN Take(candidates, n_max[1]) ELSE candidates
    IN IF n_max_factor # None
       THEN Take(by_n_max, n_max_by_factor(rel_layer, n_max_factor[1]))
       ELSE by_n_max

\* BinaryRelation(label=label, head=head, tail=tail) for every candidate taken
NewRelations(candidates, label) ==
    [i \in DOMAIN candidates |->
        BinaryRelation(label, candidates[i].head, candidates[i].tail)]

AddedLabels == {"no_relation"}
MaxDistances == {None, Some(1)}
NMaxes == {None, Some(1)}
NMaxFactors == {None, Some([num |-> 3, den |-> 2])}

InitRelations ==
    /\ tag_sequence = <<>>
    /\ labeled_spans = <<>>
    /\ base_sequence_length = 0
    /\ pc = "start"
    /\ coding_scheme = "IOB2"
    /\ include_ill_formed = TRUE
    /\ offset = 0
    /\ classes_to_ignore = {}
    /\ tags = <<>>
    /\ spans = <<>>
    /\ err = ""
    /\ \E entity_layer \in EntityLayers :
       \E rel_layer \in RelationLayers(entity_layer), partition \in PartitionLayers :
          document = [entities |-> entity_layer, relations |-> rel_layer,
                      partition |-> partition]
    /\ matches = <<>>
    /\ processor = None
    /\ returned = None
    /\ NoMetric
    /\ NoDataset

\* the body both callables share: the relations are appended to the layer of
\* the document when inplace, else to the layer of a copy
AddCandidates(label, use_partition, max_distance, distance_type, sort_by_distance, n_max, n_max_factor, inplace) ==
    LET rel_layer == document.relations
        available_partitions ==
            IF use_partition
            THEN [i \in DOMAIN document.partition |-> Some(document.partition[i])]
            ELSE <<None>>
        candidates_with_distance ==
            candidates_loop(PairsOfPartitions(document.entities, available_partitions, 1),
                            1, rel_layer, max_distance, distance_type, <<>>)
        orders == IF sort_by_distance
                  THEN {sorted_by_distance(candidates_with_distance)}
                  ELSE Shuffles(candidates_with_distance)
        taken == {Truncated(candidates_with_distance_list, rel_layer, n_max, n_max_factor) :
                     candidates_with_distance_list \in orders}
    IN /\ \E candidates_with_distance_list \in taken :
             LET result == [document EXCEPT !.relations =
                               @ \o NewRelations(candidates_with_distance_list, label)]
             IN /\ returned' = result
                /\ document' = IF inplace THEN result ELSE document
       /\ processor' = [label |-> label, use_partition |-> use_partition,
                        max_distance |-> max_distance, distance_type |-> distance_type,
                        sort_by_distance |-> sort_by_distance, n_max |-> n_max,
                        n_max_factor |-> n_max_factor, inplace |-> inplace]
       /\ err' = ""
       /\ UNCHANGED <<codec_vars, matches, metric_vars, dataset_vars>>

CandidateRelationAdderCall ==
    /\ pc = "start"
    /\ \E label \in AddedLabels, use_partition \in BOOLEAN, max_distance \in MaxDistances,
          distance_type \in DistanceTypes, sort_by_distance \in BOOLEAN,
          n_max \in NMaxes, n_max_factor \in NMaxFactors :
          AddCandidates(label, use_partition, max_distance, distance_type,
                        sort_by_distance, n_max, n_max_factor, TRUE)
    /\ pc' = "CandidateRelationAdder"

AddCandidateRelationsCall ==
    /\ pc = "start"
    /\ \E label \in AddedLabels, use_partition \in BOOLEAN, max_distance \in MaxDistances,
          distance_type \in DistanceTypes, sort_by_distance \in BOOLEAN,
          n_max \in NMaxes, n_max_factor \in NMaxFactors, inplace \in BOOLEAN :
          AddCandidates(label, use_partition, max_distance, distance_type,
                        sort_by_distance, n_max, n_max_factor, inplace)
    /\ pc' = "add_candidate_relations"

NextRelations ==
    \/ CandidateRelationAdderCall
    \/ AddCandidateRelationsCall

SpecRelations == InitRelations /\ [][NextRelations]_vars

\* C20: after a call of CandidateRelationAdder or add_candidate_relations
\* the relations that were in the layer are unchanged at its front, and
\* every relation behind them carries the configured label, has a head that
\* differs from its tail and joins a (head, tail) pair that had no relation
\* before; no pair is added twice, also when partitions overlap.
C20_OnlyNewPairsAdded ==
    [][pc' \in {"CandidateRelationAdder", "add_candidate_relations"} =>
          LET before == document.relations
              after == returned'.relations
          IN /\ Len(before) <= Len(after)
             /\ SubSeq(after, 1, Len(before)) = before
             /\ \A i \in (Len(before) + 1)..Len(after) :
                   /\ after[i].label = processor'.label
                   /\ after[i].head # after[i].tail
                   /\ \A j \in 1..Len(before) :
                         ~(before[j].head = after[i].head /\ before[j].tail = after[i].tail)
                   /\ \A j \in (Len(before) + 1)..Len(after) :
                         j # i => ~(after[j].head = after[i].head
                                    /\ after[j].tail = after[i].tail)]_vars

C20_Witness ==
    /\ pc = "CandidateRelationAdder"
    /\ processor.use_partition
    /\ processor.label = "no_relation"
    /\ document.partition = <<PartitionSpan(0, 2), PartitionSpan(0, 3)>>
    /\ document.entities = <<Entity(0, 1), Entity(0, 2)>>
    /\ document.relations = <<BinaryRelation("rel", Entity(0, 1), Entity(0, 2)),
                              BinaryRelation("no_relation", Entity(0, 2), Entity(0, 1))>>

(***************************************************************************)
(* ReversedRelationAdder and add_reversed_relations                        *)
(*                                                                         *)
(* A document is [relations]: the relation layer the processor works on.   *)
(***************************************************************************)
MaxRelations == 3  \* longest relation layer before the call

RelationEnds == {Entity(0, 1), Entity(2, 3), Entity(4, 5)}

ReversibleLabels == {"meets", "mother_of"}

\* relations between two different entities
ReversibleRelations ==
    {BinaryRelation(label, head, tail) :
        label \in ReversibleLabels, head \in RelationEnds, tail \in RelationEnds} \
    {BinaryRelation(label, end, end) : label \in ReversibleLabels, end \in RelationEnds}

ReversibleLayers == UNION {[1..k -> ReversibleRelations] : k \in 0..MaxRelations}

label_suffix == "_reversed"

SymmetricLabelLists == {{}, {"meets"}}

\* new_label: the label itself when it is symmetric, else label + suffix
new_label(rel, symmetric_relation_labels) ==
    IF rel.label \in symmetric_relation_labels THEN rel.label
    ELSE rel.label \o label_suffix

new_relation_same_direction(rel, symmetric_relation_labels) ==
    BinaryRelation(new_label(rel, symmetric_relation_labels), rel.head, rel.tail)

\* BinaryRelation(label=new_label, head=rel.tail, tail=rel.head)
new_relation(rel, symmetric_relation_labels) ==
    BinaryRelation(new_label(rel, symmetric_relation_labels), rel.tail, rel.head)

\* (head, tail) in available_relations, the dict built from rels
InAvailableRelations(head, tail, rels) ==
    \E i \in DOMAIN rels : rels[i].head = head /\ rels[i].tail = tail

RECURSIVE reversed_loop(_, _, _, _, _)
\* for rel in rels: the relation layer when the loop ends, and the exception
\* that ended it; appended relations stay in the layer when it raises
reversed_loop(rels, k, symmetric_relation_labels, allow, rel_layer) ==
    IF k > Len(rels) THEN [err |-> "", relations |-> rel_layer]
    ELSE LET new == new_relation(rels[k], symmetric_relation_labels)
         IN IF InAvailableRelations(new.head, new.tail, rels)
            THEN IF allow
                 THEN reversed_loop(rels, k + 1, symmetric_relation_labels, allow, rel_layer)
                 ELSE [err |-> "LookupError", relations |-> rel_layer]
            ELSE reversed_loop(rels, k + 1, symmetric_relation_labels, allow,
                               Append(rel_layer, new))

InitReversed ==
    /\ tag_sequence = <<>>
    /\ labeled_spans = <<>>
    /\ base_sequence_length = 0
    /\ pc = "start"
    /\ coding_scheme = "IOB2"
    /\ include_ill_formed = TRUE
    /\ offset = 0
    /\ classes_to_ignore = {}
    /\ tags = <<>>
    /\ spans = <<>>
    /\ err = ""
    /\ \E rel_layer \in ReversibleLayers : document = [relations |-> rel_layer]
    /\ matches = <<>>
    /\ processor = None
    /\ returned = None
    /\ NoMetric
    /\ NoDataset

\* the body both callables share: it works on the layer of the document when
\* inplace, else on the layer of a copy; nothing is returned when it raises
AddReversed(symmetric_relation_labels, allow_already_reversed_relations, inplace) ==
    LET rels == document.relations
        out == reversed_loop(rels, 1, symmetric_relation_labels,
                             allow_already_reversed_relations, rels)
        result == [document EXCEPT !.relations = out.relations]
    IN /\ err' = out.err
       /\ document' = IF inplace THEN result ELSE document
       /\ returned' = IF out.err = "" THEN result ELSE None
       /\ processor' = [symmetric_relation_labels |-> symmetric_relation_labels,
                        allow_already_reversed_relations |-> allow_already_reversed_relations,
                        inplace |-> inplace]
       /\ UNCHANGED <<codec_vars, matches, metric_vars, dataset_vars>>

ReversedRelationAdderCall ==
    /\ pc = "start"
    /\ \E symmetric \in SymmetricLabelLists, allow \in BOOLEAN :
          AddReversed(symmetric, allow, TRUE)
    /\ pc' = "ReversedRelationAdder"

AddReversedRelationsCall ==
    /\ pc = "start"
    /\ \E symmetric \in SymmetricLabelLists, allow \in BOOLEAN, inplace \in BOOLEAN :
          AddReversed(symmetric, allow, inplace)
    /\ pc' = "add_reversed_relations"

NextReversed ==
    \/ ReversedRelationAdderCall
    \/ AddReversedRelationsCall

SpecReversed == InitReversed /\ [][NextReversed]_vars

\* a relation for the pair (r.tail, r.head) is in the layer rels
ReverseExists(r, rels) ==
    \E j \in DOMAIN rels : rels[j].head = r.tail /\ rels[j].tail = r.head

\* the relation the claim expects for r
ReverseOf(r) ==
    [label |-> IF r.label \in processor'.symmetric_relation_labels
               THEN r.label ELSE r.label \o "_reversed",
     head |-> r.tail, tail |-> r.head]

\* C21: for each relation r present before the call, in order: when no
\* relation existed for the pair (r.tail, r.head) one relation with head
\* r.tail, tail r.head and label r.label + label_suffix (r.label when it is
\* symmetric) is appended; when one existed the call raises LookupError
\* unless allow_already_reversed_relations, and then adds nothing for r.
C21_ReversedAppended ==
    [][pc' \in {"ReversedRelationAdder", "add_reversed_relations"} =>
          LET before == document.relations
              missing == SelectSeq(before, LAMBDA r : ~ReverseExists(r, before))
              blocked == \E i \in DOMAIN before : ReverseExists(before[i], before)
          IN IF blocked /\ ~processor'.allow_already_reversed_relations
             THEN err' = "LookupError"
             ELSE /\ err' = ""
                  /\ returned'.relations =
                        before \o [i \in DOMAIN missing |-> ReverseOf(missing[i])]]_vars

C21_Witness ==
    /\ pc = "ReversedRelationAdder"
    /\ err = ""
    /\ processor.allow_already_reversed_relations
    /\ processor.symmetric_relation_labels = {"meets"}
    /\ document.relations =
          <<BinaryRelation("meets", Entity(0, 1), Entity(2, 3)),
            BinaryRelation("mother_of", Entity(2, 3), Entity(4, 5)),
            BinaryRelation("mother_of", Entity(4, 5), Entity(2, 3)),
            BinaryRelation("meets", Entity(2, 3), Entity(0, 1))>>

\* C30: when the call raises LookupError on the document itself, the
\* relation layer is as it was before the call.
C30_LayerRestoredOnError ==
    [][(pc' \in {"ReversedRelationAdder", "add_reversed_relations"}
        /\ err' = "LookupError" /\ processor'.inplace)
          => document'.relations = document.relations]_vars

(***************************************************************************)
(* SpanBasedF1WeakMeasure                                                  *)
(*                                                                         *)
(* The tensors of update are modelled by the tag sequences they stand for: *)
(* one row of predicted tags and one row of gold tags of the same length,  *)
(* after masking and the lookup in the label vocabulary.                   *)
(***************************************************************************)
MaxTokens == 2     \* longest row of tags in an update

\* the tags of label_to_id
MetricTags == {O, Tag("B", "a"), Tag("I", "a"), Tag("B", "b")}

\* the span classes of the label vocabulary
span_classes == {"a", "b"}

get_overlap_len(indices_1, indices_2) ==
    MaxOf(0, MinOf(indices_1.end, indices_2.end) - MaxOf(indices_1.start, indices_2.start))

\* the overlap is at least half the length of the shorter span
has_weak_overlap(indices_1, indices_2) ==
    2 * get_overlap_len(indices_1, indices_2)
        >= MinOf(indices_1.end - indices_1.start, indices_2.end - indices_2.start)

increase_span_end_index(span, by) == [span EXCEPT !.end = @ + by]

RECURSIVE weak_match_loop(_, _, _)
\* the for loop of get_weak_match over the gold spans, both ends increased by
\* one: the first gold span of the same type that overlaps weakly, or None
weak_match_loop(span, gold_spans, k) ==
    IF k > Len(gold_spans) THEN None
    ELSE IF /\ span.label = gold_spans[k].label
            /\ has_weak_overlap(increase_span_end_index(span, 1),
                                increase_span_end_index(gold_spans[k], 1))
         THEN Some(increase_span_end_index(increase_span_end_index(gold_spans[k], 1), -1))
         ELSE weak_match_loop(span, gold_spans, k + 1)

\* get_weak_match(span, gold_spans, inclusive_end_index=True)
get_weak_match(span, gold_spans) == weak_match_loop(span, gold_spans, 1)

\* span in gold_spans
InList(span, list) == \E i \in DOMAIN list : list[i] = span

ListRemoveNothing(list, span) == list

\* list.remove(span): the first element equal to span goes
ListRemove(list, span) ==
    LET i == CHOOSE j \in DOMAIN list :
                 list[j] = span /\ \A h \in 1..(j - 1) : list[h] # span
    IN SubSeq(list, 1, i - 1) \o SubSeq(list, i + 1, Len(list))

Increased(counter, class) == [counter EXCEPT ![class] = @ + 1]

RECURSIVE predicted_loop(_, _, _, _, _, _)
\* for span in predicted_spans: tp, fp and the gold spans left
predicted_loop(predicted_spans, k, gold_spans, weak, tp, fp) ==
    IF k > Len(predicted_spans) THEN [tp |-> tp, fp |-> fp, gold_spans |-> gold_spans]
    ELSE LET span_original == predicted_spans[k]
             match == IF weak THEN get_weak_match(span_original, gold_spans)
                      ELSE Some(span_original)
             hit == IF weak THEN match # None ELSE InList(span_original, gold_spans)
         IN IF hit
            THEN predicted_loop(predicted_spans, k + 1, ListRemove(gold_spans, match[1]),
                                weak, Increased(tp, match[1].label), fp)
            ELSE predicted_loop(predicted_spans, k + 1, gold_spans, weak, tp,
                                Increased(fp, span_original.label))

RECURSIVE gold_loop(_, _, _)
\* for span in gold_spans: these spans were not predicted
gold_loop(gold_spans, k, fn) ==
    IF k > Len(gold_spans) THEN fn
    ELSE gold_loop(gold_spans, k + 1, Increased(fn, gold_spans[k].label))

\* tag_sequence_to_token_spans with the metric's label encoding, nothing ignored
RowSpans(string_labels) == tag_sequence_to_token_spans(string_labels, "IOB2", {}, TRUE).spans

\* the counters after one row of calculate_span_based_metric; a row without
\* tokens is skipped
calculate_span_based_metric(m, length, predicted_spans, gold_spans) ==
    IF length = 0 THEN m
    ELSE LET matched == predicted_loop(predicted_spans, 1, gold_spans, m.weak, m.tp, m.fp)
         IN [m EXCEPT !.tp = matched.tp,
                      !.fp = matched.fp,
                      !.fn = gold_loop(matched.gold_spans, 1, m.fn)]

Zeros == [class \in span_classes |-> 0]

\* the spans of the class in the list
OfClass(list, class) == Cardinality({i \in DOMAIN list : list[i].label = class})

\* the predicted spans of the class that some gold span of the same label
\* matches: weakly with both ends increased by one, or exactly
Matchable(predicted_spans, gold_spans, class, weak) ==
    Cardinality({i \in DOMAIN predicted_spans :
        /\ predicted_spans[i].label = class
        /\ \E j \in DOMAIN gold_spans :
              /\ gold_spans[j].label = class
              /\ IF weak
                 THEN 2 * get_overlap_len(
                              [start |-> predicted_spans[i].start,
                               end |-> predicted_spans[i].end + 1],
                              [start |-> gold_spans[j].start, end |-> gold_spans[j].end + 1])
                      >= MinOf(predicted_spans[i].end + 1 - predicted_spans[i].start,
                               gold_spans[j].end + 1 - gold_spans[j].start)
                 ELSE gold_spans[j] = predicted_spans[i]})

InitMetric ==
    /\ tag_sequence = <<>>
    /\ labeled_spans = <<>>
    /\ base_sequence_length = 0
    /\ pc = "start"
    /\ coding_scheme = "IOB2"
    /\ include_ill_formed = TRUE
    /\ offset = 0
    /\ classes_to_ignore = {}
    /\ tags = <<>>
    /\ spans = <<>>
    /\ err = ""
    /\ NoDocument
    /\ NoDataset
    /\ \E weak \in BOOLEAN :
          metric = [weak |-> weak, tp |-> Zeros, fp |-> Zeros, fn |-> Zeros, updates |-> 0]
    /\ seen = [predicted |-> Zeros, gold |-> Zeros, matchable |-> Zeros]

\* rows of gold tags: encoded annotations, an I tag continues a span of its label
GoldRows(n) ==
    {t \in [1..n -> MetricTags] :
        \A i \in 1..n : t[i].r = "I" =>
            i > 1 /\ t[i - 1].r \in {"B", "I"} /\ t[i - 1].l = t[i].l}

\* SpanBasedF1WeakMeasure.update on a batch of one row
UpdateRow ==
    \E n \in 0..MaxTokens :
    \E preds \in [1..n -> MetricTags], targets \in GoldRows(n) :
       LET predicted_spans == RowSpans(preds)
           gold_spans == RowSpans(targets)
       IN /\ metric' = [calculate_span_based_metric(metric, n, predicted_spans, gold_spans)
                           EXCEPT !.updates = @ + 1]
          /\ seen' = [predicted |-> [c \in span_classes |->
                                        seen.predicted[c] + OfClass(predicted_spans, c)],
                      gold |-> [c \in span_classes |->
                                   seen.gold[c] + OfClass(gold_spans, c)],
                      matchable |-> [c \in span_classes |->
                                        seen.matchable[c]
                                        + Matchable(predicted_spans, gold_spans, c,
                                                    metric.weak)]]
          /\ UNCHANGED <<codec_vars, err, document_vars, dataset_vars>>

\* the first update of a new metric
Update ==
    /\ pc = "start"
    /\ UpdateRow
    /\ pc' = "update"

\* a second update of the same metric
UpdateAgain ==
    /\ pc = "update"
    /\ UpdateRow
    /\ pc' = "update again"

NextMetric ==
    \/ Update
    \/ UpdateAgain

SpecMetric == InitMetric /\ [][NextMetric]_vars

\* C22: after any sequence of update calls, for every span class, tp + fp
\* is the number of predicted spans of the class seen so far and tp + fn
\* the number of gold spans of the class seen so far; a gold span is matched
\* at most once, and no more predicted spans count as tp than have a gold
\* span of the same label that overlaps them (weakly or exactly).
C22_CountersAccount ==
    metric # None =>
        \A c \in span_classes :
            /\ metric.tp[c] + metric.fp[c] = seen.predicted[c]
            /\ metric.tp[c] + metric.fn[c] = seen.gold[c]
            /\ metric.tp[c] <= seen.gold[c]
            /\ metric.tp[c] <= seen.matchable[c]

C22_Witness ==
    /\ pc = "update again"
    /\ metric.weak
    /\ metric.updates = 2
    /\ metric.tp = [c \in span_classes |-> IF c = "a" THEN 1 ELSE 0]
    /\ metric.fp = [c \in span_classes |-> IF c = "a" THEN 1 ELSE 0]
    /\ metric.fn = [c \in span_classes |-> IF c = "b" THEN 1 ELSE 0]
    /\ seen.matchable["a"] = 2

(***************************************************************************)
(* rename_splits                                                           *)
(*                                                                         *)
(* A dict is the sequence of its items [key, value] in insertion order.    *)
(***************************************************************************)
MaxSplits == 3     \* most splits of a dataset
MaxRenames == 2    \* most entries of names

SplitNames == {"train", "validation", "test", "dev"}

SplitData == <<"first data", "second data", "third data", "fourth data", "fifth data">>

Keys(dict) == {dict[i].key : i \in DOMAIN dict}

\* dict[key], for a key of the dict
Get(dict, key) == dict[CHOOSE i \in DOMAIN dict : dict[i].key = key].value

\* the datasets: splits with different names, each with data of its own
DatasetDicts ==
    {[i \in 1..Len(keys) |-> [key |-> keys[i], value |-> SplitData[i]]] :
        keys \in {k \in UNION {[1..n -> SplitNames] : n \in 0..MaxSplits} :
                     \A i, j \in DOMAIN k : i # j => k[i] # k[j]}}

\* the dicts names: entries old -> new with different old names
NameDicts ==
    {d \in UNION {[1..n -> [key : SplitNames, value : SplitNames]] : n \in 0..MaxRenames} :
        \A i, j \in DOMAIN d : i # j => d[i].key # d[j].key}

\* dict.pop(key): the dict without the item
DictPop(dict, key) == SelectSeq(dict, LAMBDA item : item.key # key)

\* dict[key] = value: the item of the key is overwritten in place, a new
\* key is appended
DictSet(dict, key, value) ==
    IF key \in Keys(dict)
    THEN [i \in DOMAIN dict |-> IF dict[i].key = key
                                THEN [key |-> key, value |-> value] ELSE dict[i]]
    ELSE Append(dict, [key |-> key, value |-> value])

RECURSIVE rename_loop(_, _, _)
\* for old_name, new_name in names.items():
\*     new_dataset[new_name] = new_dataset.pop(old_name)
rename_loop(new_dataset, names, k) ==
    IF k > Len(names) THEN [err |-> "", dataset |-> new_dataset]
    ELSE IF names[k].key \notin Keys(new_dataset)
         THEN [err |-> "KeyError", dataset |-> new_dataset]
         ELSE rename_loop(DictSet(DictPop(new_dataset, names[k].key), names[k].value,
                                  Get(new_dataset, names[k].key)),
                          names, k + 1)

\* the result of rename_splits: it works on copy.copy(dataset)
rename_splits(data, names) == rename_loop(data, names, 1)

\* the dataset of the caller after the call: only the copy is changed
DatasetAfterRename(data, names) == data

InitDataset ==
    /\ tag_sequence = <<>>
    /\ labeled_spans = <<>>
    /\ base_sequence_length = 0
    /\ pc = "start"
    /\ coding_scheme = "IOB2"
    /\ include_ill_formed = TRUE
    /\ offset = 0
    /\ classes_to_ignore = {}
    /\ tags = <<>>
    /\ spans = <<>>
    /\ err = ""
    /\ document = None
    /\ matches = <<>>
    /\ processor \in {[names |-> names] : names \in NameDicts}
    /\ returned = None
    /\ NoMetric
    /\ dataset \in DatasetDicts
    /\ log = <<>>

RenameSplits ==
    /\ pc = "start"
    /\ LET out == rename_splits(dataset, processor.names)
       IN /\ err' = out.err
          /\ returned' = IF out.err = "" THEN out.dataset ELSE None
    /\ dataset' = DatasetAfterRename(dataset, processor.names)
    /\ pc' = "rename_splits"
    /\ UNCHANGED <<codec_vars, document, matches, processor, metric_vars, log>>

NextDataset == RenameSplits

SpecDataset == InitDataset /\ [][NextDataset]_vars

\* names renames splits of the dataset to different new names, each of them
\* free: no split of the dataset, or a split that is renamed itself
Renaming(data, names) ==
    /\ \A i \in DOMAIN names : names[i].key \in Keys(data)
    /\ \A i, j \in DOMAIN names : i # j => names[i].value # names[j].value
    /\ \A i \in DOMAIN names :
          names[i].value \in Keys(data) => names[i].value \in Keys(names)

\* C23: rename_splits returns a dataset in which, for every pair old -> new
\* of names, the split new holds the data the input had under old, every
\* split not named keeps its name and data, and the input dataset keeps its
\* names and data; for every mapping, also when a new name is an old name,
\* in any order of the entries.
C23_SplitsRenamed ==
    [][(pc' = "rename_splits" /\ Renaming(dataset, processor.names)) =>
          /\ err' = ""
          /\ dataset' = dataset
          /\ Keys(returned') = (Keys(dataset) \ Keys(processor.names))
                               \cup {processor.names[i].value : i \in DOMAIN processor.names}
          /\ \A i \in DOMAIN processor.names :
                Get(returned', processor.names[i].value)
                    = Get(dataset, processor.names[i].key)
          /\ \A key \in Keys(dataset) \ Keys(processor.names) :
                Get(returned', key) = Get(dataset, key)]_vars

(***************************************************************************)
(* Properties of boul_to_bioul                                             *)
(***************************************************************************)
\* a sequence over the BOUL alphabet in which each B is followed by an L
EachBFollowedByL(s) ==
    /\ InAlphabet(s, "BOUL")
    /\ \A i \in 1..Len(s) : s[i].r = "B" => \E k \in (i + 1)..Len(s) : s[k].r = "L"

\* the B tags before position p with no L after them up to p
OpenBefore(s, p) ==
    {j \in 1..(p - 1) : s[j].r = "B" /\ \A m \in (j + 1)..p : s[m].r # "L"}

\* p lies after a B and before the next L, of whatever label
InStretch(s, p) == OpenBefore(s, p) # {}

\* the B that opens the stretch of p: the first of them
Opener(s, p) == CHOOSE j \in OpenBefore(s, p) : \A k \in OpenBefore(s, p) : j <= k

\* p lies between a B-l and the L-l that follows it as the next L
BetweenMatching(s, p, l) ==
    \E j \in 1..(p - 1), k \in (p + 1)..Len(s) :
        /\ s[j] = Tag("B", l)
        /\ s[k] = Tag("L", l)
        /\ \A m \in (j + 1)..(k - 1) : s[m].r # "L"

BoulConverted == pc = "boul_to_bioul" /\ EachBFollowedByL(tag_sequence)

\* C24 as stated: boul_to_bioul changes only O tags between a B-l and the
\* matching L-l, each into I-l; B, L and U tags and every O outside such a
\* stretch are returned unchanged and the length is kept, for every sequence
\* over the BOUL alphabet in which each B is followed by an L.
C24_OnlyOChanged ==
    BoulConverted =>
        /\ err = ""
        /\ Len(tags) = Len(tag_sequence)
        /\ \A p \in 1..Len(tag_sequence) :
              \/ tags[p] = tag_sequence[p]
              \/ /\ tag_sequence[p] = O
                 /\ tags[p].r = "I"
                 /\ BetweenMatching(tag_sequence, p, tags[p].l)

\* C24: for every sequence over the BOUL alphabet in which each B is followed
\* by an L, boul_to_bioul keeps the length, turns every tag after a B-l and
\* before the next L tag, of whatever role and label, into I-l, and returns
\* every other tag unchanged.
C24_StretchFilled ==
    BoulConverted =>
        /\ err = ""
        /\ Len(tags) = Len(tag_sequence)
        /\ \A p \in 1..Len(tag_sequence) :
              tags[p] = IF InStretch(tag_sequence, p)
                        THEN Tag("I", tag_sequence[Opener(tag_sequence, p)].l)
                        ELSE tag_sequence[p]

C24_Witness ==
    /\ pc = "boul_to_bioul"
    /\ tag_sequence = <<Tag("B", "a"), O, Tag("L", "a")>>
    /\ tags = <<Tag("B", "a"), Tag("I", "a"), Tag("L", "a")>>

(***************************************************************************)
(* Properties of fix_bio and remove_bioul                                  *)
(***************************************************************************)
\* the tag before position i is B-l or I-l with the label of the tag at i
DirectlyPreceded(s, i) ==
    i > 1 /\ s[i - 1].r \in {"B", "I"} /\ s[i - 1].l = s[i].l

BioFixed == pc = "fix" /\ coding_scheme = "IOB2" /\ InAlphabet(tag_sequence, "IOB2")

\* C25: fix_bio changes exactly the I-l tags that are not directly preceded by
\* B-l or I-l of the same label, each into B-l; every other tag is returned
\* as it is.
C25_OrphansPromoted ==
    BioFixed =>
        /\ err = ""
        /\ Len(tags) = Len(tag_sequence)
        /\ \A i \in 1..Len(tag_sequence) :
              tags[i] = IF tag_sequence[i].r = "I" /\ ~DirectlyPreceded(tag_sequence, i)
                        THEN Tag("B", tag_sequence[i].l)
                        ELSE tag_sequence[i]

C25_Witness ==
    /\ pc = "fix"
    /\ coding_scheme = "IOB2"
    /\ tag_sequence = <<Tag("B", "a"), Tag("I", "a"), Tag("I", "b")>>
    /\ tags = <<Tag("B", "a"), Tag("I", "a"), Tag("B", "b")>>

\* positions j..k hold U-l, or B-l, I-l tags only, and L-l
GoodRun(s, j, k) ==
    \/ j = k /\ s[j].r = "U"
    \/ /\ j < k
       /\ s[j].r = "B"
       /\ s[k] = Tag("L", s[j].l)
       /\ \A m \in (j + 1)..(k - 1) : s[m] = Tag("I", s[j].l)

RECURSIVE InFailingRun(_, _)
\* position j follows a B that opens a run, with nothing but I tags of that
\* label between them: a U or B at j breaks that run and belongs to it
InFailingRun(s, j) ==
    \E i \in 1..(j - 1) :
        /\ s[i].r = "B"
        /\ ~InFailingRun(s, i)
        /\ \A m \in (i + 1)..(j - 1) : s[m] = Tag("I", s[i].l)

\* position p belongs to a run U-l or B-l I-l* L-l that is no part of a
\* failing run
InGoodRun(s, p) ==
    \E j \in 1..p, k \in p..Len(s) : GoodRun(s, j, k) /\ ~InFailingRun(s, j)

BioulRemoved == pc = "remove" /\ coding_scheme = "BIOUL" /\ InAlphabet(tag_sequence, "BIOUL")

\* C26: remove_bioul returns every run of the form U-l or B-l I-l* L-l
\* unchanged and replaces with O every position of each run that fails the
\* BIOUL grammar, the valid prefix of the run included.
C26_FailingRunsRemoved ==
    BioulRemoved =>
        /\ err = ""
        /\ Len(tags) = Len(tag_sequence)
        /\ \A p \in 1..Len(tag_sequence) :
              tags[p] = IF InGoodRun(tag_sequence, p) THEN tag_sequence[p] ELSE O

C26_Witness ==
    /\ pc = "remove"
    /\ coding_scheme = "BIOUL"
    /\ tag_sequence = <<Tag("B", "a"), Tag("I", "a"), Tag("I", "a")>>
    /\ tags = <<O, O, O>>

(***************************************************************************)
(* Properties of iob2_tags_to_spans                                        *)
(***************************************************************************)
Iob2Extracted ==
    /\ pc = "tags_to_spans"
    /\ coding_scheme = "IOB2"
    /\ InAlphabet(tag_sequence, "IOB2")

\* C28: for every sequence of tags over O, B-l, I-l, iob2_tags_to_spans
\* returns; its spans are in increasing start order, pairwise disjoint and
\* within 0 <= start <= end < len(sequence); each span starts at a B, carries
\* the label of that B and covers only I tags after its start; every B whose
\* label is not in classes_to_ignore starts exactly one span.
C28_SpansOfIob2 ==
    Iob2Extracted =>
        /\ err = ""
        /\ \A i \in 1..Len(spans) :
              /\ 0 <= spans[i].start
              /\ spans[i].start <= spans[i].end
              /\ spans[i].end < Len(tag_sequence)
              /\ At(tag_sequence, spans[i].start) = Tag("B", spans[i].label)
              /\ \A p \in (spans[i].start + 1)..spans[i].end : At(tag_sequence, p).r = "I"
              /\ i < Len(spans) => spans[i].end < spans[i + 1].start
        /\ \A p \in 0..(Len(tag_sequence) - 1) :
              (At(tag_sequence, p).r = "B" /\ At(tag_sequence, p).l \notin classes_to_ignore)
                  => Cardinality({i \in 1..Len(spans) : spans[i].start = p}) = 1

C28_Witness ==
    /\ pc = "tags_to_spans"
    /\ coding_scheme = "IOB2"
    /\ classes_to_ignore = {}
    /\ tag_sequence = <<Tag("B", "a"), Tag("I", "b"), Tag("B", "b")>>
    /\ spans = <<Span("a", 0, 1), Span("b", 2, 2)>>

(***************************************************************************)
(* The statistics of RegexPartitioner                                      *)
(*                                                                         *)
(* processor holds the parameters and _statistics of one RegexPartitioner, *)
(* document and matches the document of the last call, log one entry per   *)
(* call since the last reset_statistics: the length of the text, the       *)
(* number of partitions the document had before the call and the           *)
(* partitions the call created.                                            *)
(***************************************************************************)
\* reset_statistics
EmptyStatistics == [partition_lengths |-> <<>>, num_partitions |-> <<>>, document_lengths |-> <<>>]

\* update_statistics(key, value), kind the type of value
update_statistics(p, key, kind, value) ==
    IF p.collect_statistics
    THEN CASE kind = "list" ->
                 [err |-> "", processor |-> [p EXCEPT !._statistics[key] = @ \o value]]
           [] kind \in {"str", "int"} ->
                 [err |-> "", processor |-> [p EXCEPT !._statistics[key] = Append(@, value)]]
           [] OTHER -> [err |-> "TypeError", processor |-> p]
    ELSE [err |-> "", processor |-> p]

PartitionLengthsFromZero(partitions) == [i \in 1..Len(partitions) |-> partitions[i].end]

\* partition.end - partition.start of every partition created
PartitionLengths(partitions) ==
    [i \in 1..Len(partitions) |-> partitions[i].end - partitions[i].start]

\* the three updates at the end of __call__, for the document after the
\* partitions were appended
collect(p, doc, partition_lengths) ==
    IF p.collect_statistics
    THEN LET p1 == update_statistics(p, "num_partitions", "int", Len(doc.partition)).processor
             p2 == update_statistics(p1, "partition_lengths", "list", partition_lengths).processor
         IN update_statistics(p2, "document_lengths", "int", doc.text_len).processor
    ELSE p

InitStatistics ==
    /\ tag_sequence = <<>>
    /\ labeled_spans = <<>>
    /\ base_sequence_length = 0
    /\ pc = "start"
    /\ coding_scheme = "IOB2"
    /\ include_ill_formed = TRUE
    /\ offset = 0
    /\ classes_to_ignore = {}
    /\ tags = <<>>
    /\ spans = <<>>
    /\ err = ""
    /\ document = None
    /\ matches = <<>>
    /\ \E skip \in BOOLEAN, flag \in BOOLEAN :
          processor = [label_group_id |-> Some(0),
                       label_whitelist |-> None,
                       skip_initial_partition |-> skip,
                       collect_statistics |-> flag,
                       _statistics |-> EmptyStatistics]
    /\ returned = None
    /\ NoMetric
    /\ dataset = None
    /\ log = <<>>

\* RegexPartitioner.__call__ on the document doc, whose text has the matches ms
Partition(doc, ms) ==
    LET created == get_partitions_with_matcher(ms, doc.text_len, processor.label_group_id,
                                               processor.label_whitelist,
                                               processor.skip_initial_partition)
        after == [doc EXCEPT !.partition = @ \o created]
    IN /\ document' = after
       /\ matches' = ms
       /\ returned' = after
       /\ processor' = collect(processor, after, PartitionLengths(created))
       /\ log' = Append(log, [text_len |-> doc.text_len,
                              before |-> Len(doc.partition),
                              created |-> created])
       /\ err' = ""
       /\ UNCHANGED <<codec_vars, metric_vars, dataset>>

\* the matches of a pattern that matches the marker "x" only
StatisticsMatchLists(n) ==
    LET markers == {m \in Matches(n) : m.group = "x"}
    IN {ms \in UNION {[1..k -> markers] : k \in 0..MaxMatches} :
           \A i \in 1..(Len(ms) - 1) : ms[i].end <= ms[i + 1].start}

\* a document that has no partitions yet
PartitionNew ==
    \E n \in 0..MaxText : \E ms \in StatisticsMatchLists(n) :
        Partition([text_len |-> n, partition |-> <<>>], ms)

\* the first document
PartitionFirst ==
    /\ pc = "start"
    /\ PartitionNew
    /\ pc' = "partitioned"

\* the next document
PartitionNext ==
    /\ pc \in {"partitioned", "reset"}
    /\ PartitionNew
    /\ pc' = "partitioned again"

\* the document returned by the call before is processed once more
PartitionSame ==
    /\ pc = "partitioned"
    /\ Partition(document, matches)
    /\ pc' = "partitioned again"

ResetStatistics ==
    /\ pc = "partitioned"
    /\ processor' = [processor EXCEPT !._statistics = EmptyStatistics]
    /\ log' = <<>>
    /\ pc' = "reset"
    /\ UNCHANGED <<codec_vars, document, matches, returned, err, metric_vars, dataset>>

NextStatistics ==
    \/ PartitionFirst
    \/ PartitionNext
    \/ PartitionSame
    \/ ResetStatistics

SpecStatistics == InitStatistics /\ [][NextStatistics]_vars

RECURSIVE Concat(_, _)
\* the lengths end - start of the partitions created by the calls i.. of the
\* log, one after the other
Concat(entries, i) ==
    IF i > Len(entries) THEN <<>>
    ELSE [k \in 1..Len(entries[i].created) |->
             entries[i].created[k].end - entries[i].created[k].start]
         \o Concat(entries, i + 1)

Statistics == processor._statistics

ListsOfLengths ==
    /\ Statistics.partition_lengths = Concat(log, 1)
    /\ Len(Statistics.num_partitions) = Len(log)
    /\ Len(Statistics.document_lengths) = Len(log)
    /\ \A i \in 1..Len(log) : Statistics.document_lengths[i] = log[i].text_len

\* C27 as stated: with collect_statistics=True, after the documents d1..dk
\* since the last reset_statistics, partition_lengths is the concatenation of
\* the lengths of the partitions created for d1..dk, num_partitions has k
\* entries, entry i the number of partitions created for di, and
\* document_lengths has k entries len(di.text); with collect_statistics=False
\* the three lists stay empty.
C27_CountsCreated ==
    IF processor.collect_statistics
    THEN /\ ListsOfLengths
         /\ \A i \in 1..Len(log) : Statistics.num_partitions[i] = Len(log[i].created)
    ELSE Statistics = EmptyStatistics

\* C27: as above, but entry i of num_partitions is the number of partitions
\* in the partition layer of di after the call: those it had before and those
\* created for it.
C27_CountsLayer ==
    IF processor.collect_statistics
    THEN /\ ListsOfLengths
         /\ \A i \in 1..Len(log) :
               Statistics.num_partitions[i] = log[i].before + Len(log[i].created)
    ELSE Statistics = EmptyStatistics

C27_Witness ==
    /\ pc = "partitioned again"
    /\ processor.collect_statistics
    /\ Len(log) = 2
    /\ log[1].before = 0
    /\ log[2].before = 2
    /\ Statistics.num_partitions = <<2, 4>>
    /\ Statistics.partition_lengths = <<1, 2, 1, 2>>
    /\ Statistics.document_lengths = <<3, 3>>

(***************************************************************************)
(* process_documents                                                       *)
(*                                                                         *)
(* dataset is the caller's dataset: its splits in order, each with a name  *)
(* and a number of documents.  processor is the frame of the call:         *)
(* single_map, the document processors in the order of the dict and the    *)
(* positions s and p of the loops over the splits and the processors.  A   *)
(* processor that is a WithStatistics counts the documents it is called    *)
(* on.  returned is new_dataset, each split with the processors that were  *)
(* mapped over it.  log holds the calls of reset_statistics, map and       *)
(* show_statistics in their order.                                         *)
(***************************************************************************)
MaxDocuments == 2     \* most documents of a split
MaxProcessors == 2    \* most document processors

SplitNameAt == <<"train", "validation", "test", "dev", "extra">>

Split(name, documents) == [name |-> name, documents |-> documents, mapped |-> <<>>]

ProcessedDatasets ==
    UNION {{[i \in 1..n |-> Split(SplitNameAt[i], docs[i])] : docs \in [1..n -> 0..MaxDocuments]} :
              n \in 0..MaxSplits}

\* a document processor: a WithStatistics or not, with its counter
DocumentProcessors ==
    UNION {[1..n -> [with_statistics : BOOLEAN, num_documents : {0}]] : n \in 0..MaxProcessors}

reset_statistics_keeps_count(q) == q

\* reset_statistics of a WithStatistics
reset_statistics(q) == [q EXCEPT !.num_documents = 0]

\* the processor called on every document of a split
called_on(q, documents) ==
    IF q.with_statistics THEN [q EXCEPT !.num_documents = @ + documents] ELSE q

Event(op, q, split, shown) == [op |-> op, p |-> q, s |-> split, shown |-> shown]

RECURSIVE reset_events(_, _, _)
\* for p_name, p in document_processors.items():
\*     if isinstance(p, WithStatistics): p.reset_statistics()
reset_events(ps, i, split) ==
    IF i > Len(ps) THEN <<>>
    ELSE (IF ps[i].with_statistics THEN <<Event("reset", i, split, 0)>> ELSE <<>>)
         \o reset_events(ps, i + 1, split)

RECURSIVE show_events(_, _, _)
\* for p_name, p in document_processors.items():
\*     if isinstance(p, WithStatistics): p.show_statistics(...)
show_events(ps, i, split) ==
    IF i > Len(ps) THEN <<>>
    ELSE (IF ps[i].with_statistics
          THEN <<Event("show", i, split, ps[i].num_documents)>> ELSE <<>>)
         \o show_events(ps, i + 1, split)

InitProcess ==
    /\ tag_sequence = <<>>
    /\ labeled_spans = <<>>
    /\ base_sequence_length = 0
    /\ pc = "start"
    /\ coding_scheme = "IOB2"
    /\ include_ill_formed = TRUE
    /\ offset = 0
    /\ classes_to_ignore = {}
    /\ tags = <<>>
    /\ spans = <<>>
    /\ err = ""
    /\ document = None
    /\ matches = <<>>
    /\ \E flag \in BOOLEAN, ps \in DocumentProcessors :
          processor = [single_map |-> flag, document_processors |-> ps, s |-> 1, p |-> 1]
    /\ returned = None
    /\ NoMetric
    /\ dataset \in ProcessedDatasets
    /\ log = <<>>

ProcessFrame == <<codec_vars, document, matches, err, metric_vars, dataset>>

\* new_dataset = copy.copy(dataset)
ProcessDocuments ==
    /\ pc = "start"
    /\ returned' = dataset
    /\ pc' = "reset"
    /\ UNCHANGED <<ProcessFrame, processor, log>>

\* the loops are at a split, and at a processor when every processor is
\* mapped by itself
InLoop ==
    /\ processor.s <= Len(returned)
    /\ processor.single_map \/ processor.p <= Len(processor.document_processors)

Reset ==
    /\ pc = "reset"
    /\ InLoop
    /\ LET ps == processor.document_processors
           q == processor.p
       IN IF processor.single_map
          THEN /\ processor' = [processor EXCEPT !.document_processors =
                                   [i \in 1..Len(ps) |-> IF ps[i].with_statistics
                                                         THEN reset_statistics(ps[i]) ELSE ps[i]]]
               /\ log' = log \o reset_events(ps, 1, processor.s)
          ELSE IF ps[q].with_statistics
          THEN /\ processor' = [processor EXCEPT !.document_processors[q] = reset_statistics(@)]
               /\ log' = Append(log, Event("reset", q, processor.s, 0))
          ELSE UNCHANGED <<processor, log>>
    /\ pc' = "map"
    /\ UNCHANGED <<ProcessFrame, returned>>

\* new_dataset[s] = d.map(_process_document), or d.map(p): the function is
\* called on every document of the split
Map ==
    /\ pc = "map"
    /\ LET ps == processor.document_processors
           q == processor.p
           documents == returned[processor.s].documents
       IN IF processor.single_map
          THEN /\ processor' = [processor EXCEPT !.document_processors =
                                   [i \in 1..Len(ps) |-> called_on(ps[i], documents)]]
               /\ returned' = [returned EXCEPT ![processor.s].mapped =
                                   @ \o [i \in 1..Len(ps) |-> i]]
               /\ log' = Append(log, Event("map", 0, processor.s, 0))
          ELSE /\ processor' = [processor EXCEPT !.document_processors[q] =
                                   called_on(@, documents)]
               /\ returned' = [returned EXCEPT ![processor.s].mapped = Append(@, q)]
               /\ log' = Append(log, Event("map", q, processor.s, 0))
    /\ pc' = "show"
    /\ UNCHANGED ProcessFrame

Show ==
    /\ pc = "show"
    /\ LET ps == processor.document_processors
           q == processor.p
       IN IF processor.single_map
          THEN log' = log \o show_events(ps, 1, processor.s)
          ELSE IF ps[q].with_statistics
          THEN log' = Append(log, Event("show", q, processor.s, ps[q].num_documents))
          ELSE UNCHANGED log
    /\ processor' = [processor EXCEPT !.s = @ + 1]
    /\ pc' = "reset"
    /\ UNCHANGED <<ProcessFrame, returned>>

\* the loop over the splits is through: the next processor starts at the
\* first split
NextProcessor ==
    /\ pc = "reset"
    /\ ~processor.single_map
    /\ processor.p <= Len(processor.document_processors)
    /\ processor.s > Len(returned)
    /\ processor' = [processor EXCEPT !.p = @ + 1, !.s = 1]
    /\ UNCHANGED <<ProcessFrame, returned, log, pc>>

\* return new_dataset
Return ==
    /\ pc = "reset"
    /\ IF processor.single_map THEN processor.s > Len(returned)
       ELSE processor.p > Len(processor.document_processors)
    /\ pc' = "done"
    /\ UNCHANGED <<ProcessFrame, returned, processor, log>>

NextProcess ==
    \/ ProcessDocuments
    \/ Reset
    \/ Map
    \/ Show
    \/ NextProcessor
    \/ Return

SpecProcess == InitProcess /\ [][NextProcess]_vars

\* the processors that implement WithStatistics
WithStatistics ==
    {q \in 1..Len(processor.document_processors) :
        processor.document_processors[q].with_statistics}

\* entry i of the log is a call of processor q, or a map that calls it
Concerns(i, q) == log[i].p = q \/ (log[i].op = "map" /\ log[i].p = 0)

\* entry i of the log maps a split with processor q
Maps(i, q) == log[i].op = "map" /\ Concerns(i, q)

\* no entry strictly between i and j concerns q
Adjacent(i, j, q) == \A k \in (i + 1)..(j - 1) : ~Concerns(k, q)

\* C29: in process_documents, for every split and every processor that
\* implements WithStatistics, reset_statistics is called before the documents
\* of the split are mapped and show_statistics after they are mapped and
\* before the next reset, in both single_map modes; the statistics shown for
\* a split count the documents of that split only.
C29_ResetMapShow ==
    pc \in {"reset", "map", "show", "done"} =>
        \A q \in WithStatistics :
            /\ \A i \in 1..Len(log) :
                  Maps(i, q) =>
                      /\ \E j \in 1..(i - 1) :
                            /\ log[j].op = "reset"
                            /\ log[j].p = q
                            /\ log[j].s = log[i].s
                            /\ Adjacent(j, i, q)
                      /\ \A j \in (i + 1)..Len(log) :
                            (Concerns(j, q) /\ Adjacent(i, j, q)) =>
                                /\ log[j].op = "show"
                                /\ log[j].s = log[i].s
                                /\ log[j].shown = dataset[log[i].s].documents
            /\ pc = "done" =>
                  \A split \in 1..Len(dataset) :
                      \E i \in 1..Len(log), j \in 1..Len(log) :
                          /\ i < j
                          /\ Maps(i, q)
                          /\ log[i].s = split
                          /\ log[j] = Event("show", q, split, dataset[split].documents)
                          /\ Adjacent(i, j, q)

C29_Witness ==
    /\ pc = "done"
    /\ ~processor.single_map
    /\ WithStatistics = {1, 2}
    /\ Len(dataset) = 2
    /\ dataset[1].documents = 2
    /\ dataset[2].documents = 1
    /\ log[Len(log)] = Event("show", 2, 2, 1)
    /\ \E i \in 1..Len(log) : log[i] = Event("show", 2, 1, 2)

====
